---- MODULE Spec2Model ----
(***************************************************************************)
(* Mirage mock-API service: the request matcher (pattern-matcher.ts), the  *)
(* mock dispatch service (mock-endpoint.service.ts), the serving           *)
(* controller and the quota / usage middleware (auth.ts).                  *)
(*                                                                         *)
(* A JavaScript string is a sequence of one-character strings, so that     *)
(* String.replace, RegExp compilation and RegExp matching are computed     *)
(* character by character, as the engine computes them.                    *)
(***************************************************************************)
EXTENDS Integers, Sequences, FiniteSets, TLC

(***************************************************************************)
(* Bounds of the model.                                                    *)
(***************************************************************************)
MaxPatTokens == 3      \* tokens after the leading "/" of a generated pattern
MaxUrlLen == 4         \* characters of a generated request path
MaxMockRequests == 2   \* mock requests received in one behaviour
MaxRequestsPerMonth == 1   \* the plan's max_requests_per_month, scaled down
MaxMonth == 2          \* calendar months a behaviour runs through
MaxEndpoints == 2      \* the plan's max_endpoints, scaled down
MaxOps == 2            \* endpoint-management calls in one behaviour
MaxTicks == 2          \* ticks of the clock in one behaviour

(***************************************************************************)
(* String helpers.                                                         *)
(***************************************************************************)
\* index of the first c in s at or after position i, 0 when there is none
RECURSIVE IndexOf(_, _, _)
IndexOf(s, c, i) ==
  IF i > Len(s) THEN 0
  ELSE IF s[i] = c THEN i
  ELSE IndexOf(s, c, i + 1)

\* does s carry the text w at position i
IsAt(s, w, i) ==
  /\ i + Len(w) - 1 <= Len(s)
  /\ \A k \in 1..Len(w) : s[i + k - 1] = w[k]

\* number of occurrences of c in s
RECURSIVE CountChar(_, _)
CountChar(s, c) ==
  IF s = <<>> THEN 0
  ELSE (IF Head(s) = c THEN 1 ELSE 0) + CountChar(Tail(s), c)

\* the replacement text '([^/]+)' of both placeholder rewrites
GroupText == <<"(", "[", "^", "/", "]", "+", ")">>

\* /\{[^}]+\}/ at position i: index of the closing brace, 0 when no match
BraceEnd(p, i) ==
  IF p[i] # "{" THEN 0
  ELSE LET j == IndexOf(p, "}", i + 1)
       IN IF j >= i + 2 THEN j ELSE 0

\* /:([^/]+)/ at position i: index of the last character taken, 0 when no match
ColonEnd(p, i) ==
  IF p[i] # ":" \/ i = Len(p) THEN 0
  ELSE IF p[i + 1] = "/" THEN 0
  ELSE LET j == IndexOf(p, "/", i + 1)
       IN IF j = 0 THEN Len(p) ELSE j - 1

\* .replace(/\{[^}]+\}/g, '([^/]+)')
RECURSIVE ReplaceBraceFrom(_, _)
ReplaceBraceFrom(p, i) ==
  IF i > Len(p) THEN <<>>
  ELSE IF BraceEnd(p, i) # 0
       THEN GroupText \o ReplaceBraceFrom(p, BraceEnd(p, i) + 1)
       ELSE <<p[i]>> \o ReplaceBraceFrom(p, i + 1)

ReplaceBrace(p) == ReplaceBraceFrom(p, 1)

\* .replace(/:([^/]+)/g, '([^/]+)')
RECURSIVE ReplaceColonFrom(_, _)
ReplaceColonFrom(p, i) ==
  IF i > Len(p) THEN <<>>
  ELSE IF ColonEnd(p, i) # 0
       THEN GroupText \o ReplaceColonFrom(p, ColonEnd(p, i) + 1)
       ELSE <<p[i]>> \o ReplaceColonFrom(p, i + 1)

ReplaceColon(p) == ReplaceColonFrom(p, 1)

\* .replace(/c/g, w) for a single character c
RECURSIVE ReplaceChar(_, _, _)
ReplaceChar(p, c, w) ==
  IF p = <<>> THEN <<>>
  ELSE (IF Head(p) = c THEN w ELSE <<Head(p)>>) \o ReplaceChar(Tail(p), c, w)

(***************************************************************************)
(* new RegExp(source): the part of the ECMAScript pattern grammar that the *)
(* rewritten patterns can produce.  A compiled regex is a sequence of      *)
(* alternatives, each a sequence of terms                                  *)
(*   [a |-> "lit" | "any" | "grp" | "bol" | "eol", c, q, lazy]             *)
(* where "grp" is the capturing group ([^/]+), "any" is `.`, "bol"/"eol"   *)
(* are ^ and $, q is the quantifier "1", "*", "+" or "?".                  *)
(* A stray parenthesis (such as the ")" left when the :name rewrite eats   *)
(* the head of a "([^/]+)" produced by the {name} rewrite) or a quantifier *)
(* with nothing to repeat is a SyntaxError: ok = FALSE.                    *)
(***************************************************************************)
Term(a, c) == [a |-> a, c |-> c, q |-> "1", lazy |-> FALSE]

SyntaxError == [ok |-> FALSE, alts |-> <<>>]

SetLast(cur, t) == [cur EXCEPT ![Len(cur)] = t]

\* st: "none" nothing to repeat, "atom" an atom was just read, "quant" a
\* quantifier was just read (a following ? makes it lazy)
RECURSIVE ParseFrom(_, _, _, _, _)
ParseFrom(src, i, alts, cur, st) ==
  IF i > Len(src) THEN [ok |-> TRUE, alts |-> Append(alts, cur)]
  ELSE LET c == src[i] IN
    CASE c = "|" -> ParseFrom(src, i + 1, Append(alts, cur), <<>>, "none")
      [] c = "(" -> IF IsAt(src, GroupText, i)
                    THEN ParseFrom(src, i + 7, alts, Append(cur, Term("grp", "")), "atom")
                    ELSE SyntaxError
      [] c = ")" -> SyntaxError
      [] c = "\\" -> IF i = Len(src) THEN SyntaxError
                     ELSE ParseFrom(src, i + 2, alts, Append(cur, Term("lit", src[i + 1])), "atom")
      [] c = "." -> ParseFrom(src, i + 1, alts, Append(cur, Term("any", "")), "atom")
      [] c = "^" -> ParseFrom(src, i + 1, alts, Append(cur, Term("bol", "")), "none")
      [] c = "$" -> ParseFrom(src, i + 1, alts, Append(cur, Term("eol", "")), "none")
      [] c \in {"*", "+", "?"} ->
           IF st = "atom"
           THEN ParseFrom(src, i + 1, alts,
                          SetLast(cur, [cur[Len(cur)] EXCEPT !.q = c]), "quant")
           ELSE IF st = "quant" /\ c = "?"
           THEN ParseFrom(src, i + 1, alts,
                          SetLast(cur, [cur[Len(cur)] EXCEPT !.lazy = TRUE]), "none")
           ELSE SyntaxError
      [] OTHER -> ParseFrom(src, i + 1, alts, Append(cur, Term("lit", c)), "atom")

\* new RegExp(src)
RegExpCompile(src) == ParseFrom(src, 1, <<>>, <<>>, "none")

\* number of capturing groups in a term sequence
RECURSIVE GroupCount(_)
GroupCount(ts) ==
  IF ts = <<>> THEN 0
  ELSE (IF Head(ts).a = "grp" THEN 1 ELSE 0) + GroupCount(Tail(ts))

RECURSIVE GroupCountAlts(_)
GroupCountAlts(alts) ==
  IF alts = <<>> THEN 0 ELSE GroupCount(Head(alts)) + GroupCountAlts(Tail(alts))

Undefined == [def |-> FALSE, v |-> <<>>]
Captured(v) == [def |-> TRUE, v |-> v]

NoMatch == [ok |-> FALSE, caps |-> <<>>]

\* length of the run of characters other than "/" that starts at j
RECURSIVE RunLen(_, _)
RunLen(s, j) ==
  IF j > Len(s) THEN 0
  ELSE IF s[j] = "/" THEN 0
  ELSE 1 + RunLen(s, j + 1)

\* AtomOpts with a placeholder group written (.+) instead of ([^/]+)
AtomOpts_GroupTakesSlash(t, s, j) ==
  CASE t.a = "lit" -> IF j <= Len(s) /\ s[j] = t.c THEN <<j + 1>> ELSE <<>>
    [] t.a = "any" -> IF j <= Len(s) THEN <<j + 1>> ELSE <<>>
    [] OTHER -> LET n == Len(s) - j + 1 IN [k \in 1..n |-> j + n - k + 1]

\* the positions an atom can end at (next index), in backtracking order:
\* [^/]+ is greedy, so the longest run is tried first
AtomOpts(t, s, j) ==
  CASE t.a = "lit" -> IF j <= Len(s) /\ s[j] = t.c THEN <<j + 1>> ELSE <<>>
    [] t.a = "any" -> IF j <= Len(s) THEN <<j + 1>> ELSE <<>>
    [] OTHER -> LET n == RunLen(s, j) IN [k \in 1..n |-> j + n - k + 1]

(***************************************************************************)
(* Backtracking matcher: the first match in priority order of the term     *)
(* sequence ts from term k at position j of s.  base is the number of      *)
(* groups in earlier alternatives, it is 1 once a "+" term has iterated.   *)
(***************************************************************************)
RECURSIVE MatchFrom(_, _, _, _, _, _, _)
RECURSIVE TryOpts(_, _, _, _, _, _, _, _, _, _)

TryOpts(ts, base, s, k, j, caps, opts, n, nextk, nextit) ==
  IF n > Len(opts) THEN NoMatch
  ELSE LET g == base + GroupCount(SubSeq(ts, 1, k))
           caps2 == IF ts[k].a = "grp"
                    THEN [caps EXCEPT ![g] = Captured(SubSeq(s, j, opts[n] - 1))]
                    ELSE caps
           r == MatchFrom(ts, base, s, nextk, opts[n], caps2, nextit)
       IN IF r.ok THEN r
          ELSE TryOpts(ts, base, s, k, j, caps, opts, n + 1, nextk, nextit)

MatchFrom(ts, base, s, k, j, caps, it) ==
  IF k > Len(ts) THEN [ok |-> TRUE, caps |-> caps]
  ELSE LET t == ts[k] IN
    CASE t.a = "bol" -> IF j = 1 THEN MatchFrom(ts, base, s, k + 1, j, caps, 0)
                        ELSE NoMatch
      [] t.a = "eol" -> IF j = Len(s) + 1 THEN MatchFrom(ts, base, s, k + 1, j, caps, 0)
                        ELSE NoMatch
      [] OTHER ->
         LET opts == AtomOpts(t, s, j)
             once == TryOpts(ts, base, s, k, j, caps, opts, 1, k + 1, 0)
             again == TryOpts(ts, base, s, k, j, caps, opts, 1, k, 1)
             skip == MatchFrom(ts, base, s, k + 1, j, caps, 0)
             more == IF t.q = "?" THEN once ELSE again
         IN CASE t.q = "1" -> once
              [] t.q = "+" /\ it = 0 -> again
              [] OTHER -> IF t.lazy
                          THEN (IF skip.ok THEN skip ELSE more)
                          ELSE (IF more.ok THEN more ELSE skip)

\* regex.exec(s) without the g flag: leftmost start, alternatives in order
RECURSIVE ExecFrom(_, _, _, _, _)
ExecFrom(alts, s, start, a, base) ==
  IF start > Len(s) + 1 THEN NoMatch
  ELSE IF a > Len(alts) THEN ExecFrom(alts, s, start + 1, 1, 0)
  ELSE LET init == [g \in 1..GroupCountAlts(alts) |-> Undefined]
           r == MatchFrom(alts[a], base, s, 1, start, init, 0)
       IN IF r.ok THEN r
          ELSE ExecFrom(alts, s, start, a + 1, base + GroupCount(alts[a]))

RegExpExec(re, s) == ExecFrom(re.alts, s, 1, 1, 0)

(***************************************************************************)
(* PatternMatcher.matchUrlPattern                                          *)
(***************************************************************************)
\* the five chained replaces that turn a pattern into regex source
MatchRegexSource(pattern) ==
  ReplaceChar(
    ReplaceChar(
      ReplaceChar(ReplaceColon(ReplaceBrace(pattern)), "*", <<".", "*">>),
      "?", <<"\\", "?">>),
    ".", <<"\\", ".">>)

Anchored(src) == <<"^">> \o src \o <<"$">>

matchUrlPattern(requestUrl, pattern) ==
  IF requestUrl = pattern THEN TRUE
  ELSE LET regex == RegExpCompile(Anchored(MatchRegexSource(pattern)))
       IN IF regex.ok
          THEN RegExpExec(regex, requestUrl).ok
          ELSE requestUrl = pattern      \* catch: fall back to exact match

(***************************************************************************)
(* PatternMatcher.extractPathParameters                                    *)
(***************************************************************************)
\* while ((match = braceParamRegex.exec(pattern)) !== null) paramNames.push(match[1])
RECURSIVE BraceNamesFrom(_, _)
BraceNamesFrom(p, i) ==
  IF i > Len(p) THEN <<>>
  ELSE IF BraceEnd(p, i) # 0
       THEN <<SubSeq(p, i + 1, BraceEnd(p, i) - 1)>> \o BraceNamesFrom(p, BraceEnd(p, i) + 1)
       ELSE BraceNamesFrom(p, i + 1)

\* while ((match = colonParamRegex.exec(pattern)) !== null) paramNames.push(match[1])
RECURSIVE ColonNamesFrom(_, _)
ColonNamesFrom(p, i) ==
  IF i > Len(p) THEN <<>>
  ELSE IF ColonEnd(p, i) # 0
       THEN <<SubSeq(p, i + 1, ColonEnd(p, i))>> \o ColonNamesFrom(p, ColonEnd(p, i) + 1)
       ELSE ColonNamesFrom(p, i + 1)

\* all {name} names first, then all :name names
ParamNames(pattern) == BraceNamesFrom(pattern, 1) \o ColonNamesFrom(pattern, 1)

EmptyParams == [n \in {} |-> <<>>]

\* paramNames.forEach((name, index) => { if (urlMatch[index + 1]) params[name] = ... })
RECURSIVE AssignParams(_, _, _, _)
AssignParams(names, caps, i, params) ==
  IF i > Len(names) THEN params
  ELSE LET val == IF i <= Len(caps) THEN caps[i] ELSE Undefined
       IN AssignParams(names, caps, i + 1,
            IF val.def /\ val.v # <<>>
            THEN (names[i] :> val.v) @@ params
            ELSE params)

ExtractRegexSource(pattern) == ReplaceColon(ReplaceBrace(pattern))

extractPathParameters(requestUrl, pattern) ==
  LET paramNames == ParamNames(pattern)
      regex == RegExpCompile(Anchored(ExtractRegexSource(pattern)))
      urlMatch == RegExpExec(regex, requestUrl)
  IN IF paramNames = <<>> THEN EmptyParams
     ELSE IF ~regex.ok THEN EmptyParams          \* catch: return {}
     ELSE IF urlMatch.ok /\ Len(urlMatch.caps) + 1 > 1
     THEN AssignParams(paramNames, urlMatch.caps, 1, EmptyParams)
     ELSE EmptyParams

(***************************************************************************)
(* PatternMatcher.findBestMatch                                            *)
(***************************************************************************)
\* Compare without the exact-match rule
Compare_NoExactRule(a, b, requestUrl) ==
  IF Len(a.url_pattern) # Len(b.url_pattern)
  THEN Len(b.url_pattern) - Len(a.url_pattern)
  ELSE b.created_at - a.created_at

\* Compare with the length rule reversed (shorter patterns first)
Compare_ShortestFirst(a, b, requestUrl) ==
  LET aIsExact == requestUrl = a.url_pattern
      bIsExact == requestUrl = b.url_pattern
  IN IF aIsExact /\ ~bIsExact THEN -1
     ELSE IF ~aIsExact /\ bIsExact THEN 1
     ELSE IF Len(a.url_pattern) # Len(b.url_pattern)
     THEN Len(a.url_pattern) - Len(b.url_pattern)
     ELSE b.created_at - a.created_at

\* Compare with the creation-time rule reversed (older endpoints first)
Compare_OldestFirst(a, b, requestUrl) ==
  LET aIsExact == requestUrl = a.url_pattern
      bIsExact == requestUrl = b.url_pattern
  IN IF aIsExact /\ ~bIsExact THEN -1
     ELSE IF ~aIsExact /\ bIsExact THEN 1
     ELSE IF Len(a.url_pattern) # Len(b.url_pattern)
     THEN Len(b.url_pattern) - Len(a.url_pattern)
     ELSE a.created_at - b.created_at

\* the comparator handed to Array.prototype.sort
Compare(a, b, requestUrl) ==
  LET aIsExact == requestUrl = a.url_pattern
      bIsExact == requestUrl = b.url_pattern
  IN IF aIsExact /\ ~bIsExact THEN -1
     ELSE IF ~aIsExact /\ bIsExact THEN 1
     ELSE IF Len(a.url_pattern) # Len(b.url_pattern)
     THEN Len(b.url_pattern) - Len(a.url_pattern)
     ELSE b.created_at - a.created_at

\* Array.prototype.sort is stable: e goes behind every element it does not precede
RECURSIVE InsertSorted(_, _, _)
InsertSorted(sorted, e, requestUrl) ==
  IF sorted = <<>> THEN <<e>>
  ELSE IF Compare(Head(sorted), e, requestUrl) > 0
       THEN <<e>> \o sorted
       ELSE <<Head(sorted)>> \o InsertSorted(Tail(sorted), e, requestUrl)

RECURSIVE SortEndpoints(_, _)
SortEndpoints(es, requestUrl) ==
  IF es = <<>> THEN <<>>
  ELSE InsertSorted(SortEndpoints(SubSeq(es, 1, Len(es) - 1), requestUrl),
                    es[Len(es)], requestUrl)

\* the null that findBestMatch returns
NoEndpoint ==
  [id |-> 0, method |-> "", url_pattern |-> <<>>, is_active |-> FALSE, created_at |-> 0]

MatchingEndpoints(requestUrl, method, endpoints) ==
  LET Keep(e) == /\ e.method = method
                 /\ e.is_active
                 /\ matchUrlPattern(requestUrl, e.url_pattern)
  IN SelectSeq(endpoints, Keep)

findBestMatch(requestUrl, method, endpoints) ==
  LET matchingEndpoints == MatchingEndpoints(requestUrl, method, endpoints)
  IN IF Len(matchingEndpoints) = 0 THEN NoEndpoint
     ELSE SortEndpoints(matchingEndpoints, requestUrl)[1]

(***************************************************************************)
(* Input domains of the matcher: patterns are "/" followed by at most      *)
(* MaxPatTokens tokens, request paths are "/" followed by characters.      *)
(***************************************************************************)
PatTokens ==
  { <<"/">>, <<"a">>, <<"{", "x", "}">>, <<":", "y">>, <<"*">>, <<".">>, <<"|">> }

RECURSIVE PatternsUpTo(_)
PatternsUpTo(n) ==
  IF n = 0 THEN { <<"/">> }
  ELSE PatternsUpTo(n - 1) \cup { p \o t : p \in PatternsUpTo(n - 1), t \in PatTokens }

Patterns == PatternsUpTo(MaxPatTokens)

UrlChars == {"/", "a", "."}

RECURSIVE UrlsUpTo(_)
UrlsUpTo(n) ==
  IF n <= 1 THEN { <<"/">> }
  ELSE UrlsUpTo(n - 1) \cup { u \o <<c>> : u \in UrlsUpTo(n - 1), c \in UrlChars }

Urls == UrlsUpTo(MaxUrlLen)

\* endpoints handed to findBestMatch: patterns that compete for "/a"; none of
\* them matches "/a/a"
BestPatterns ==
  { <<"/", "a">>, <<"/", "{", "x", "}">>, <<"/", ":", "y">>, <<"/", "a", "*">> }

BestUrls == { <<"/", "a">>, <<"/", "a", "/", "a">> }

Methods == {"GET", "POST"}

MaxCandidates == 2     \* endpoints in the list handed to findBestMatch
MaxCreatedAt == 2      \* created_at values are 1..MaxCreatedAt

Candidate ==
  [method : Methods, url_pattern : BestPatterns, is_active : BOOLEAN,
   created_at : 1..MaxCreatedAt]

\* the list built from f, in order; the id is the position in the list
WithIds(f) ==
  [i \in DOMAIN f |-> [id |-> i, method |-> f[i].method,
                       url_pattern |-> f[i].url_pattern,
                       is_active |-> f[i].is_active,
                       created_at |-> f[i].created_at]]

(***************************************************************************)
(* State.                                                                  *)
(***************************************************************************)
VARIABLES
  m_pattern,     \* matcher: the pattern argument
  m_url,         \* matcher: the requestUrl argument
  m_phase,       \* matcher: "input", then "matched", then "extracted"
  m_matched,     \* matcher: result of matchUrlPattern
  m_params,      \* matcher: result of extractPathParameters
  b_endpoints,   \* findBestMatch: the endpoints argument
  b_method,      \* findBestMatch: the method argument
  b_url,         \* findBestMatch: the requestUrl argument
  b_phase,       \* findBestMatch: "input", then "done"
  b_best,        \* findBestMatch: the result
  mock_endpoints,\* service: the rows of table mock_endpoints, row i has id i
  api_usage,     \* service: the rows of table api_usage
  month,         \* service: the calendar month of CURRENT_DATE
  requests,      \* service: the mock requests, each with its position in the pipeline
  verified,      \* account routes: the users whose is_verified is true
  account,       \* account routes: the latest account-management request
  ops,           \* endpoint management: the create / update / delete calls
  now,           \* timers: the time of the event loop, in ticks of TickMs
  timed          \* timers: the mock requests whose completion order is observed

matcherVars == <<m_pattern, m_url, m_phase, m_matched, m_params>>
bestVars == <<b_endpoints, b_method, b_url, b_phase, b_best>>
serviceVars == <<mock_endpoints, api_usage, month, requests>>
accountVars == <<verified, account>>
endpointVars == <<ops>>
delayVars == <<now, timed>>
auxVars == <<accountVars, endpointVars, delayVars>>
vars == <<matcherVars, bestVars, serviceVars, auxVars>>

MatcherIdle ==
  /\ m_pattern = <<"/">> /\ m_url = <<"/">>
  /\ m_phase = "input" /\ m_matched = FALSE /\ m_params = EmptyParams

BestIdle ==
  /\ b_endpoints = <<>> /\ b_method = "GET" /\ b_url = <<"/">>
  /\ b_phase = "input" /\ b_best = NoEndpoint

ServiceIdle ==
  /\ mock_endpoints = <<>> /\ api_usage = {} /\ month = 1 /\ requests = <<>>

AccountIdle == verified = {} /\ account = <<>>

EndpointIdle == ops = <<>>

DelayIdle == now = 0 /\ timed = <<>>

AuxIdle == AccountIdle /\ EndpointIdle /\ DelayIdle

(***************************************************************************)
(* The matcher applied to every pattern and path of the input domains.     *)
(***************************************************************************)
InitMatcher ==
  /\ m_pattern \in Patterns
  /\ m_url \in Urls
  /\ m_phase = "input"
  /\ m_matched = FALSE
  /\ m_params = EmptyParams
  /\ BestIdle
  /\ ServiceIdle
  /\ AuxIdle

CallMatchUrlPattern ==
  /\ m_phase = "input"
  /\ m_phase' = "matched"
  /\ m_matched' = matchUrlPattern(m_url, m_pattern)
  /\ UNCHANGED <<m_pattern, m_url, m_params, bestVars, serviceVars, auxVars>>

\* handleMockRequest extracts the parameters of the endpoint that matched
CallExtractPathParameters ==
  /\ m_phase = "matched"
  /\ m_matched
  /\ m_phase' = "extracted"
  /\ m_params' = extractPathParameters(m_url, m_pattern)
  /\ UNCHANGED <<m_pattern, m_url, m_matched, bestVars, serviceVars, auxVars>>

NextMatcher == CallMatchUrlPattern \/ CallExtractPathParameters

SpecMatcher == InitMatcher /\ [][NextMatcher]_vars

(***************************************************************************)
(* findBestMatch applied to every candidate list of the input domain.      *)
(***************************************************************************)
InitBest ==
  /\ \E n \in 1..MaxCandidates : \E f \in [1..n -> Candidate] : b_endpoints = WithIds(f)
  /\ b_method \in Methods
  /\ b_url \in BestUrls
  /\ b_phase = "input"
  /\ b_best = NoEndpoint
  /\ MatcherIdle
  /\ ServiceIdle
  /\ AuxIdle

CallFindBestMatch ==
  /\ b_phase = "input"
  /\ b_phase' = "done"
  /\ b_best' = findBestMatch(b_url, b_method, b_endpoints)
  /\ UNCHANGED <<b_endpoints, b_method, b_url, matcherVars, serviceVars, auxVars>>

NextBest == CallFindBestMatch

SpecBest == InitBest /\ [][NextBest]_vars

(***************************************************************************)
(* Properties of findBestMatch (SpecBest).                                 *)
(***************************************************************************)
\* the endpoints of the list that are active, carry the method and match the path
BestMatching ==
  { i \in DOMAIN b_endpoints :
      /\ b_endpoints[i].is_active
      /\ b_endpoints[i].method = b_method
      /\ matchUrlPattern(b_url, b_endpoints[i].url_pattern) }

BestExact == { i \in BestMatching : b_endpoints[i].url_pattern = b_url }

\* C1: when an active endpoint whose pattern is identical to the request path
\* exists for the method, findBestMatch selects an endpoint with the identical
\* pattern, whatever other endpoints match and whatever their lengths and
\* created_at values are.
C1_ExactMatchWins ==
  (b_phase = "done" /\ BestExact # {})
    => (b_best.id \in BestExact)

\* an exact endpoint competes with a longer and newer parametrized one and wins
C1_Witness ==
  /\ b_phase = "done"
  /\ \E i \in BestExact : \E j \in BestMatching \ BestExact :
       /\ Len(b_endpoints[j].url_pattern) > Len(b_endpoints[i].url_pattern)
       /\ b_endpoints[j].created_at > b_endpoints[i].created_at
       /\ j < i
  /\ b_best.id \in BestExact

\* C2: when no matching endpoint is an exact match, the selected endpoint has
\* the greatest url_pattern length among the matching endpoints.
C2_LongestPatternWins ==
  (b_phase = "done" /\ BestMatching # {} /\ BestExact = {})
    => /\ b_best.id \in BestMatching
       /\ \A i \in BestMatching :
            Len(b_endpoints[i].url_pattern) <= Len(b_best.url_pattern)

\* two non-exact matches of different lengths, the shorter one newer and first
C2_Witness ==
  /\ b_phase = "done"
  /\ BestExact = {}
  /\ \E i, j \in BestMatching :
       /\ Len(b_endpoints[i].url_pattern) < Len(b_endpoints[j].url_pattern)
       /\ b_endpoints[i].created_at > b_endpoints[j].created_at
       /\ i < j
       /\ b_best.id = j

\* C3: among non-exact matching endpoints with patterns of equal length, the
\* selected one has the latest created_at.
C3_NewestWins ==
  (b_phase = "done" /\ BestMatching # {} /\ BestExact = {})
    => \A i \in BestMatching :
         Len(b_endpoints[i].url_pattern) = Len(b_best.url_pattern)
           => b_endpoints[i].created_at <= b_best.created_at

\* two non-exact matches of equal length and different age, the older one first
C3_Witness ==
  /\ b_phase = "done"
  /\ BestExact = {}
  /\ \E i, j \in BestMatching :
       /\ b_endpoints[i].url_pattern # b_endpoints[j].url_pattern
       /\ Len(b_endpoints[i].url_pattern) = Len(b_endpoints[j].url_pattern)
       /\ b_endpoints[i].created_at < b_endpoints[j].created_at
       /\ i < j
       /\ b_best.id = j

(***************************************************************************)
(* Properties of matchUrlPattern and extractPathParameters (SpecMatcher).  *)
(***************************************************************************)
\* the "/"-separated segments of a path or pattern
RECURSIVE SplitFrom(_, _, _)
SplitFrom(s, i, cur) ==
  IF i > Len(s) THEN <<cur>>
  ELSE IF s[i] = "/" THEN <<cur>> \o SplitFrom(s, i + 1, <<>>)
  ELSE SplitFrom(s, i + 1, Append(cur, s[i]))

Segments(s) == SplitFrom(s, 1, <<>>)

IsPrefixOf(w, s) == Len(w) <= Len(s) /\ SubSeq(s, 1, Len(w)) = w

\* characters that neither rewrite nor the regex grammar treats specially
PlainChars == {"a", "x", "y"}

IsLiteralSeg(seg) == \A i \in 1..Len(seg) : seg[i] \in PlainChars

\* a segment that is exactly {name}
IsBraceSeg(seg) ==
  /\ Len(seg) >= 3 /\ seg[1] = "{" /\ seg[Len(seg)] = "}"
  /\ IsLiteralSeg(SubSeq(seg, 2, Len(seg) - 1))

\* a segment that is exactly :name
IsColonSeg(seg) ==
  /\ Len(seg) >= 2 /\ seg[1] = ":"
  /\ IsLiteralSeg(SubSeq(seg, 2, Len(seg)))

SegName(seg) ==
  IF seg[1] = "{" THEN SubSeq(seg, 2, Len(seg) - 1) ELSE SubSeq(seg, 2, Len(seg))

\* a segment in which one of the two placeholder rewrites applies
SegHasPlaceholder(seg) ==
  \E i \in 1..Len(seg) : BraceEnd(seg, i) # 0 \/ ColonEnd(seg, i) # 0

PlaceholderSegs(p) ==
  { k \in 1..Len(Segments(p)) : SegHasPlaceholder(Segments(p)[k]) }

\* literal text followed by one bare "*"
IsBareStarPattern(p) ==
  /\ Len(p) >= 2
  /\ p[Len(p)] = "*"
  /\ \A i \in 1..(Len(p) - 1) : p[i] \in PlainChars \cup {"/"}

\* C4: a pattern ending in a bare "*" matches every request path that starts
\* with the pattern's text before the "*", further "/" segments included.
C4_WildcardMatchesRemainder ==
  ( /\ m_phase # "input"
    /\ IsBareStarPattern(m_pattern)
    /\ IsPrefixOf(SubSeq(m_pattern, 1, Len(m_pattern) - 1), m_url) )
    => m_matched

\* segments are literal text, {name} or :name, with one placeholder at least
\* and no name declared twice
IsPlaceholderPattern(p) ==
  LET segs == Segments(p)
      ph == { k \in 1..Len(segs) : IsBraceSeg(segs[k]) \/ IsColonSeg(segs[k]) }
  IN /\ ph # {}
     /\ \A k \in 1..Len(segs) : k \in ph \/ IsLiteralSeg(segs[k])
     /\ \A k, l \in ph : SegName(segs[k]) = SegName(segs[l]) => k = l

\* C5: for a matching pattern whose placeholders are {name} and :name in any
\* mix and order, every declared name is bound to the path segment at the
\* position of its own placeholder.
C5_ParametersBoundByPosition ==
  (m_phase = "extracted" /\ IsPlaceholderPattern(m_pattern))
    => LET segs == Segments(m_pattern)
           usegs == Segments(m_url)
       IN \A k \in 1..Len(segs) :
            (IsBraceSeg(segs[k]) \/ IsColonSeg(segs[k]))
              => /\ k <= Len(usegs)
                 /\ SegName(segs[k]) \in DOMAIN m_params
                 /\ m_params[SegName(segs[k])] = usegs[k]

\* the path has the segments of the pattern, and a non-empty segment wherever
\* the pattern has a placeholder
PlaceholdersTakeOneSegment(p, u) ==
  /\ Len(Segments(u)) = Len(Segments(p))
  /\ \A k \in PlaceholderSegs(p) : Segments(u)[k] # <<>>

\* C6 as claimed: a pattern with a placeholder never matches a path (other
\* than the identical string) in which the placeholder's position is empty or
\* spans more than one segment.
C6_PlaceholderOneSegment ==
  ( /\ m_phase # "input" /\ m_matched
    /\ m_url # m_pattern
    /\ PlaceholderSegs(m_pattern) # {} )
    => PlaceholdersTakeOneSegment(m_pattern, m_url)

\* C6 amended: the same, for patterns without the regex alternation
\* character "|", which the rewrite leaves unescaped.
C6_PlaceholderOneSegmentNoAlternation ==
  ( /\ m_phase # "input" /\ m_matched
    /\ m_url # m_pattern
    /\ PlaceholderSegs(m_pattern) # {}
    /\ CountChar(m_pattern, "|") = 0 )
    => PlaceholdersTakeOneSegment(m_pattern, m_url)

\* a {name} and a :name pattern each matched a path of two segments
C6_Witness ==
  /\ m_phase # "input" /\ m_matched
  /\ m_url # m_pattern
  /\ CountChar(m_pattern, "|") = 0
  /\ Cardinality(PlaceholderSegs(m_pattern)) = 2
  /\ Len(Segments(m_url)) = 3
  /\ PlaceholdersTakeOneSegment(m_pattern, m_url)

(***************************************************************************)
(* ValidationService (utils/validation.ts).  A JSON schema is "none",      *)
(* an object schema with a set of required properties, or a document ajv   *)
(* cannot compile; a body is absent or an object with a set of properties. *)
(***************************************************************************)
NoSchema == [kind |-> "none", required |-> {}]
ObjectSchema(required) == [kind |-> "object", required |-> required]
MalformedSchema == [kind |-> "malformed", required |-> {}]

NoBody == [present |-> FALSE, fields |-> {}]
Body(fields) == [present |-> TRUE, fields |-> fields]

\* validateSchema that accepts every body
validateSchema_AcceptsAll(data, schema) ==
  [isValid |-> TRUE, errors |-> {}]

validateSchema(data, schema) ==
  IF schema.kind = "malformed"
  THEN [isValid |-> FALSE,
        errors |-> { [field |-> "schema", message |-> "Invalid schema provided"] }]
  ELSE LET missing == schema.required \ data.fields
       IN IF missing # {}
          THEN [isValid |-> FALSE,
                errors |-> { [field |-> "#/required", message |-> f] : f \in missing }]
          ELSE [isValid |-> TRUE, errors |-> {}]

validateRequestBody(body, schema) ==
  IF schema.kind = "none" THEN [isValid |-> TRUE, errors |-> {}]
  ELSE validateSchema(body, schema)

(***************************************************************************)
(* The stored rows and the callers.                                        *)
(***************************************************************************)
Users == {"u1"}

\* the users who manage endpoints; both have a row in table users
Managers == {"u1", "u2"}

\* req.user is undefined: no credentials, or credentials that failed to verify
Anonymous == "anonymous"

Callers == Users \cup {Anonymous}

Row(id, user_id, method, url_pattern, request_schema, status, data, delay, active, created) ==
  [id |-> id, user_id |-> user_id, method |-> method, url_pattern |-> url_pattern,
   request_schema |-> request_schema, response_status_code |-> status,
   response_data |-> data, response_delay_ms |-> delay, is_active |-> active,
   created_at |-> created]

\* rows of mock_endpoints when the service starts: a plain endpoint, an endpoint
\* with a request schema and a delay, an endpoint whose pattern rewrites to a
\* regex that does not compile, and a soft-deleted endpoint
SeedEndpoints ==
  << Row(1, "u1", "GET", <<"/", "a">>, NoSchema, 200, "users", 0, TRUE, 1),
     Row(2, "u2", "POST", <<"/", "a">>, ObjectSchema({"email", "password"}),
         201, "session", 5000, TRUE, 2),
     Row(3, "u1", "GET", <<"/", ":", "y", "{", "x", "}">>, NoSchema, 200, "broken",
         0, TRUE, 3),
     Row(4, "u1", "GET", <<"/", "b">>, NoSchema, 200, "old", 0, FALSE, 4) >>

\* the mock requests a caller sends: method, path below /mock, parsed body
MockRequest(method, url, body) == [method |-> method, url |-> url, body |-> body]

MockRequests ==
  { MockRequest("GET", <<"/", "a">>, NoBody),
    MockRequest("GET", <<"/", "b">>, NoBody),
    MockRequest("POST", <<"/", "a">>, Body({"email"})),
    MockRequest("POST", <<"/", "a">>, Body({"email", "password"})),
    MockRequest("POST", <<"/", "a">>, NoBody) }

(***************************************************************************)
(* MockEndpointModel.findMatchingEndpoints: the active rows of a method,   *)
(* ORDER BY LENGTH(url_pattern) DESC, created_at DESC.  Rows that tie on   *)
(* both keys come in any order, so the result is a set of possible lists.  *)
(***************************************************************************)
MayPrecede(a, b) ==
  \/ Len(a.url_pattern) > Len(b.url_pattern)
  \/ Len(a.url_pattern) = Len(b.url_pattern) /\ a.created_at >= b.created_at

findMatchingEndpoints(method) ==
  LET ids == { i \in DOMAIN mock_endpoints :
                 mock_endpoints[i].method = method /\ mock_endpoints[i].is_active }
      n == Cardinality(ids)
      orders == { f \in [1..n -> ids] :
                    \A j, k \in 1..n :
                      j < k => /\ f[j] # f[k]
                               /\ MayPrecede(mock_endpoints[f[j]], mock_endpoints[f[k]]) }
  IN { [k \in 1..n |-> mock_endpoints[f[k]]] : f \in orders }

(***************************************************************************)
(* MockEndpointService.handleMockRequest and                               *)
(* MockServingController.serveMockRequest.                                 *)
(***************************************************************************)
\* a MockResponse; endpoint_id is the X-Mirage-Endpoint-Id header, 0 without headers
MockResponse(status_code, data, details, endpoint_id, delay_ms) ==
  [status_code |-> status_code, data |-> data, details |-> details,
   endpoint_id |-> endpoint_id, delay_ms |-> delay_ms]

\* what handleMockRequest does: it throws, returns null, returns a response
\* at once, or returns a response after sleeping response.delay_ms
Outcome(kind, matched, response) ==
  [kind |-> kind, matched |-> matched, response |-> response]

NoMockResponse == MockResponse(0, "", {}, 0, 0)

\* handleMockRequest with the delay applied before the schema check: a
\* request to an endpoint with a delay sleeps whatever its body
respondWith_DelayFirst(request, matchedEndpoint) ==
  IF /\ matchedEndpoint.request_schema.kind # "none"
     /\ request.body.present
     /\ ~validateRequestBody(request.body, matchedEndpoint.request_schema).isValid
  THEN Outcome(IF matchedEndpoint.response_delay_ms > 0 THEN "sleep" ELSE "return",
               matchedEndpoint.id,
               MockResponse(400, "Request validation failed",
                            validateRequestBody(request.body,
                                                matchedEndpoint.request_schema).errors,
                            0, 0))
  ELSE Outcome(IF matchedEndpoint.response_delay_ms > 0 THEN "sleep" ELSE "return",
               matchedEndpoint.id,
               MockResponse(matchedEndpoint.response_status_code,
                            matchedEndpoint.response_data, {},
                            matchedEndpoint.id, matchedEndpoint.response_delay_ms))

\* handleMockRequest once findBestMatch has returned a matchedEndpoint; the
\* path parameters it extracts after the schema check only go to the log
respondWith(request, matchedEndpoint) ==
  IF /\ matchedEndpoint.request_schema.kind # "none"
     /\ request.body.present
     /\ ~validateRequestBody(request.body, matchedEndpoint.request_schema).isValid
  THEN Outcome("return", matchedEndpoint.id,
               MockResponse(400, "Request validation failed",
                            validateRequestBody(request.body,
                                                matchedEndpoint.request_schema).errors,
                            0, 0))
  ELSE Outcome(IF matchedEndpoint.response_delay_ms > 0 THEN "sleep" ELSE "return",
               matchedEndpoint.id,
               MockResponse(matchedEndpoint.response_status_code,
                            matchedEndpoint.response_data, {},
                            matchedEndpoint.id, matchedEndpoint.response_delay_ms))

matchedOrNull(request, matchedEndpoint) ==
  IF matchedEndpoint.id = 0 THEN Outcome("null", 0, NoMockResponse)
  ELSE respondWith(request, matchedEndpoint)

handleMockRequest(request, readOk, candidates) ==
  IF ~readOk THEN Outcome("throw", 0, NoMockResponse)
  ELSE matchedOrNull(request, findBestMatch(request.url, request.method, candidates))

\* an HTTP response: status, error code of the body, body text, error
\* details, and the endpoint id the controller stored in the request
HttpResponse(status_code, code, data, details, endpoint_id) ==
  [status_code |-> status_code, code |-> code, data |-> data,
   details |-> details, endpoint_id |-> endpoint_id]

NoResponse == HttpResponse(0, "", "", {}, 0)

\* errorHandler: an AppError keeps its status, code and message, every other
\* error becomes the generic 500
AppError(message, statusCode, code) ==
  [isAppError |-> TRUE, message |-> message, statusCode |-> statusCode, code |-> code]

PlainError(message) ==
  [isAppError |-> FALSE, message |-> message, statusCode |-> 0, code |-> ""]

\* errorHandler that puts the message of every error into the body
errorHandler_LeaksMessage(error) ==
  IF error.isAppError
  THEN HttpResponse(error.statusCode, error.code, error.message, {}, 0)
  ELSE HttpResponse(500, "INTERNAL_ERROR", error.message, {}, 0)

errorHandler(error) ==
  IF error.isAppError
  THEN HttpResponse(error.statusCode, error.code, error.message, {}, 0)
  ELSE HttpResponse(500, "INTERNAL_ERROR", "Internal server error", {}, 0)

\* serveMockRequest that answers a null result like a thrown error
serveMockRequest_NullIsError(outcome) ==
  IF outcome.kind \in {"throw", "null"}
  THEN errorHandler(PlainError("Failed to handle mock request"))
  ELSE HttpResponse(outcome.response.status_code, "", outcome.response.data,
                    outcome.response.details, outcome.response.endpoint_id)

\* the response serveMockRequest sends for an outcome of handleMockRequest
serveMockRequest(outcome) ==
  IF outcome.kind = "throw"
  THEN errorHandler(PlainError("Failed to handle mock request"))
  ELSE IF outcome.kind = "null"
  THEN HttpResponse(404, "MOCK_ENDPOINT_NOT_FOUND", "No matching mock endpoint found",
                    {}, 0)
  ELSE HttpResponse(outcome.response.status_code, "", outcome.response.data,
                    outcome.response.details, outcome.response.endpoint_id)

(***************************************************************************)
(* Quota and usage: UserModel.getUserUsageStats, UserModel.trackApiUsage,  *)
(* AuthMiddleware.checkQuota and AuthMiddleware.trackUsage.                *)
(***************************************************************************)
\* the usage query without its date_key conditions: the rows of every month
getUserUsageStats_AllMonths(userId) ==
  LET requestCount == Cardinality({ u \in api_usage : u.user_id = userId })
      endpointCount ==
        Cardinality({ i \in DOMAIN mock_endpoints :
                        /\ mock_endpoints[i].user_id = userId
                        /\ mock_endpoints[i].is_active })
  IN [current_period_requests |-> requestCount,
      max_requests |-> MaxRequestsPerMonth,
      requests_remaining |->
        IF MaxRequestsPerMonth - requestCount > 0
        THEN MaxRequestsPerMonth - requestCount ELSE 0,
      current_period_endpoints |-> endpointCount,
      max_endpoints |-> MaxEndpoints,
      endpoints_remaining |->
        IF MaxEndpoints - endpointCount > 0 THEN MaxEndpoints - endpointCount ELSE 0]

\* COUNT(*) of this month's api_usage rows of the user, against the plan
getUserUsageStats(userId) ==
  LET requestCount ==
        Cardinality({ u \in api_usage : u.user_id = userId /\ u.month = month })
      endpointCount ==
        Cardinality({ i \in DOMAIN mock_endpoints :
                        /\ mock_endpoints[i].user_id = userId
                        /\ mock_endpoints[i].is_active })
      maxRequests == MaxRequestsPerMonth
      maxEndpoints == MaxEndpoints
  IN [current_period_requests |-> requestCount,
      max_requests |-> maxRequests,
      requests_remaining |->
        IF maxRequests - requestCount > 0 THEN maxRequests - requestCount ELSE 0,
      current_period_endpoints |-> endpointCount,
      max_endpoints |-> maxEndpoints,
      endpoints_remaining |->
        IF maxEndpoints - endpointCount > 0 THEN maxEndpoints - endpointCount ELSE 0]

\* the quota test with >= in place of >
HasQuota_AllowsZero(usageStats) == usageStats.requests_remaining >= 0

\* hasQuota of checkQuota('requests')
HasQuota(usageStats) == usageStats.requests_remaining > 0

\* the Authorization header of a request: absent, a token or API key that
\* fails verification, or the valid credential of a user
Tokens == {"none", "invalid"} \cup Users

\* authenticateJWT / authenticateApiKey: req.user is set, or an AppError thrown
Verified(user) == [ok |-> TRUE, user |-> user, error |-> PlainError("")]
Rejected(error) == [ok |-> FALSE, user |-> Anonymous, error |-> error]

authenticateToken(token) ==
  IF token \in Users \cup Managers THEN Verified(token)
  ELSE Rejected(AppError("Invalid token", 401, "INVALID_TOKEN"))

\* optionalAuthenticate: the caller next() sees; a missing token and a failed
\* verification both leave req.user undefined
optionalAuthenticate(token) ==
  IF token = "none" THEN Anonymous
  ELSE IF authenticateToken(token).ok THEN authenticateToken(token).user
  ELSE Anonymous

\* checkQuota('requests'): the error handed to next(), or none; seen is the
\* request count that getUserUsageStats returned, -1 when it was not read
Passed(seen) == [pass |-> TRUE, seen |-> seen, error |-> PlainError("")]
Refused(seen, error) == [pass |-> FALSE, seen |-> seen, error |-> error]

\* checkQuota without the req.user test: an anonymous caller goes through
checkQuota_AnonymousPasses(user, statsOk) ==
  IF user = Anonymous
  THEN Passed(-1)
  ELSE IF ~statsOk
  THEN Refused(-1, PlainError("Failed to get user usage stats"))
  ELSE IF HasQuota(getUserUsageStats(user))
  THEN Passed(getUserUsageStats(user).current_period_requests)
  ELSE Refused(getUserUsageStats(user).current_period_requests,
               AppError("Monthly request limit exceeded", 429, "QUOTA_EXCEEDED"))

checkQuota(user, statsOk) ==
  IF user = Anonymous
  THEN Refused(-1, AppError("Authentication required to access mock endpoints",
                            401, "AUTH_REQUIRED"))
  ELSE IF ~statsOk
  THEN Refused(-1, PlainError("Failed to get user usage stats"))
  ELSE LET usageStats == getUserUsageStats(user)
       IN IF HasQuota(usageStats)
          THEN Passed(usageStats.current_period_requests)
          ELSE Refused(usageStats.current_period_requests,
                       AppError("Monthly request limit exceeded", 429, "QUOTA_EXCEEDED"))

\* req.route.path of the route that serves every mock request
RoutePath == <<"/", "*">>

\* the usage row with the owner of the matched endpoint as user_id
UsageRow_ChargesOwner(r) ==
  [id |-> r,
   user_id |-> IF requests[r].response.endpoint_id # 0
               THEN mock_endpoints[requests[r].response.endpoint_id].user_id
               ELSE requests[r].user,
   endpoint_id |-> requests[r].response.endpoint_id,
   method |-> requests[r].method,
   url_pattern |-> RoutePath,
   response_status_code |-> requests[r].response.status_code,
   month |-> month]

\* the row trackApiUsage inserts for a request; date_key is CURRENT_DATE
UsageRow(r) ==
  [id |-> r,
   user_id |-> requests[r].user,
   endpoint_id |-> requests[r].response.endpoint_id,
   method |-> requests[r].method,
   url_pattern |-> RoutePath,
   response_status_code |-> requests[r].response.status_code,
   month |-> month]

(***************************************************************************)
(* The service: mock requests run through the route's middleware chain,    *)
(* interleaved at every await.                                             *)
(***************************************************************************)
NoOutcome == Outcome("none", 0, NoMockResponse)

NewRequest ==
  [pc |-> "new", token |-> "none", user |-> Anonymous, method |-> "GET",
   url |-> <<"/">>,
   body |-> NoBody, seen |-> -1, month |-> 0, admitted |-> FALSE,
   read_ok |-> FALSE, outcome |-> NoOutcome, response |-> NoResponse,
   usage |-> "none"]

Init ==
  /\ mock_endpoints = SeedEndpoints
  /\ api_usage = {}
  /\ month = 1
  /\ requests = [r \in 1..MaxMockRequests |-> NewRequest]
  /\ MatcherIdle
  /\ BestIdle
  /\ AuxIdle

\* res.send as wrapped by trackUsage: the response goes out and, for an
\* identified caller, trackApiUsage is started and not awaited
Send(req, response) ==
  [req EXCEPT !.pc = "done", !.response = response,
              !.usage = IF req.user # Anonymous THEN "pending" ELSE "none"]

\* a request arrives: optionalAuthenticate resolves the caller, then
\* checkQuota('requests') reads the usage and admits or refuses.  The
\* requests are those that mockRateLimit, first in the chain, lets through.
ReceiveMockRequest(r) ==
  /\ requests[r].pc = "new"
  /\ IF r = 1 THEN TRUE ELSE requests[r - 1].pc # "new"
  /\ \E token \in Tokens, statsOk \in BOOLEAN :
       LET user == optionalAuthenticate(token)
           received == [requests[r] EXCEPT !.token = token, !.user = user,
                                           !.month = month]
           quota == checkQuota(user, statsOk)
       IN requests' =
            [requests EXCEPT ![r] =
               IF quota.pass
               THEN [received EXCEPT !.pc = "handler", !.seen = quota.seen,
                                     !.admitted = TRUE]
               ELSE [received EXCEPT !.pc = "done", !.seen = quota.seen,
                                     !.response = errorHandler(quota.error)]]
  /\ UNCHANGED <<mock_endpoints, api_usage, month, matcherVars, bestVars, auxVars>>

\* the request after handleMockRequest was called with mockRequest and came
\* to outcome.  The path and the body of the request are recorded when
\* handleMockRequest reads them, which is after the candidates have arrived.
Called(req, mockRequest, readOk, outcome) ==
  [req EXCEPT !.method = mockRequest.method,
              !.url = IF readOk THEN mockRequest.url ELSE req.url,
              !.body = IF readOk THEN mockRequest.body ELSE req.body,
              !.read_ok = readOk,
              !.outcome = outcome]

\* the request asleep in handleMockRequest, or answered by the controller
Handled(req, mockRequest, readOk, outcome) ==
  IF outcome.kind = "sleep"
  THEN [Called(req, mockRequest, readOk, outcome) EXCEPT !.pc = "sleep"]
  ELSE Send(Called(req, mockRequest, readOk, outcome), serveMockRequest(outcome))

\* trackUsage wraps res.send, then serveMockRequest awaits handleMockRequest,
\* which reads the candidates of the method and either sleeps or lets the
\* response go out through res.send
ServeMockRequest(r) ==
  /\ requests[r].pc = "handler"
  /\ \E mockRequest \in MockRequests, readOk \in BOOLEAN :
     \E candidates \in findMatchingEndpoints(mockRequest.method) :
     \E outcome \in {handleMockRequest(mockRequest, readOk, candidates)} :
       requests' = [requests EXCEPT
                      ![r] = Handled(requests[r], mockRequest, readOk, outcome)]
  /\ UNCHANGED <<mock_endpoints, api_usage, month, matcherVars, bestVars, auxVars>>

\* the setTimeout of response_delay_ms fires
DelayElapsed(r) ==
  /\ requests[r].pc = "sleep"
  /\ requests' = [requests EXCEPT
                    ![r] = Send(requests[r], serveMockRequest(requests[r].outcome))]
  /\ UNCHANGED <<mock_endpoints, api_usage, month, matcherVars, bestVars, auxVars>>

\* the INSERT of trackApiUsage commits
InsertUsage(r) ==
  /\ requests[r].usage = "pending"
  /\ api_usage' = api_usage \cup {UsageRow(r)}
  /\ requests' = [requests EXCEPT ![r].usage = "stored"]
  /\ UNCHANGED <<mock_endpoints, month, matcherVars, bestVars, auxVars>>

\* the failed INSERT rethrown into the request: the error replaces the response
InsertUsageFails_Surfaced(r) ==
  /\ requests[r].usage = "pending"
  /\ requests' = [requests EXCEPT
                    ![r].usage = "failed",
                    ![r].response =
                      errorHandler(PlainError("Failed to track API usage"))]
  /\ UNCHANGED <<mock_endpoints, api_usage, month, matcherVars, bestVars, auxVars>>

\* the INSERT of trackApiUsage fails; the error is logged and swallowed
InsertUsageFails(r) ==
  /\ requests[r].usage = "pending"
  /\ requests' = [requests EXCEPT ![r].usage = "failed"]
  /\ UNCHANGED <<mock_endpoints, api_usage, month, matcherVars, bestVars, auxVars>>

\* CURRENT_DATE moves into the next calendar month
MonthChanges ==
  /\ month < MaxMonth
  /\ month' = month + 1
  /\ UNCHANGED <<mock_endpoints, api_usage, requests, matcherVars, bestVars, auxVars>>

Next ==
  \/ \E r \in DOMAIN requests : ReceiveMockRequest(r)
  \/ \E r \in DOMAIN requests : ServeMockRequest(r)
  \/ \E r \in DOMAIN requests : DelayElapsed(r)
  \/ \E r \in DOMAIN requests : InsertUsage(r)
  \/ \E r \in DOMAIN requests : InsertUsageFails(r)
  \/ MonthChanges

Spec == Init /\ [][Next]_vars

(***************************************************************************)
(* Properties of mock dispatch (Spec).                                     *)
(***************************************************************************)
\* the patterns of the stored rows and the paths of the requests, and the
\* pairs of them for which matchUrlPattern answers true
StoredPatterns == { SeedEndpoints[i].url_pattern : i \in DOMAIN SeedEndpoints }

RequestUrls == { request.url : request \in MockRequests }

Matches ==
  { pu \in StoredPatterns \X RequestUrls : matchUrlPattern(pu[2], pu[1]) }

\* stored patterns whose derived regex does not compile
BrokenPatterns ==
  { p \in StoredPatterns : ~RegExpCompile(Anchored(MatchRegexSource(p))).ok }

\* no active row of the method has a pattern that matches the path
NoActiveMatch(method, url) ==
  \A i \in DOMAIN mock_endpoints :
    ~( /\ mock_endpoints[i].is_active
       /\ mock_endpoints[i].method = method
       /\ <<mock_endpoints[i].url_pattern, url>> \in Matches )

\* C7: when the candidates were read and no active endpoint of the request's
\* method matches the path, handleMockRequest returns null and the response
\* is 404 with code MOCK_ENDPOINT_NOT_FOUND; no error is raised, also when a
\* stored pattern rewrites to a regex that does not compile.
C7_NoMatchIsNotFound ==
  \A r \in DOMAIN requests :
    ( /\ requests[r].outcome.kind # "none"
      /\ requests[r].read_ok
      /\ NoActiveMatch(requests[r].method, requests[r].url) )
    => /\ requests[r].outcome.kind = "null"
       /\ requests[r].pc = "done"
       /\ requests[r].response.status_code = 404
       /\ requests[r].response.code = "MOCK_ENDPOINT_NOT_FOUND"

\* a request was answered 404 although an inactive row has exactly its path
\* and an active row of its method has a pattern that does not compile
C7_Witness ==
  \E r \in DOMAIN requests :
    /\ requests[r].pc = "done"
    /\ requests[r].read_ok
    /\ requests[r].response.status_code = 404
    /\ requests[r].response.code = "MOCK_ENDPOINT_NOT_FOUND"
    /\ \E i \in DOMAIN mock_endpoints :
         /\ ~mock_endpoints[i].is_active
         /\ mock_endpoints[i].method = requests[r].method
         /\ mock_endpoints[i].url_pattern = requests[r].url
    /\ \E i \in DOMAIN mock_endpoints :
         /\ mock_endpoints[i].is_active
         /\ mock_endpoints[i].method = requests[r].method
         /\ mock_endpoints[i].url_pattern \in BrokenPatterns

\* the body does not satisfy the schema
BodyFails(body, schema) ==
  \/ schema.kind = "malformed"
  \/ ~(schema.required \subseteq body.fields)

\* C8: when the matched endpoint has a request_schema and the body the
\* request carries fails it, the response is 400 with the validation-error
\* payload, one detail for every missing property, and neither the configured
\* response_data nor a delay is applied.
C8_SchemaGate ==
  \A r \in DOMAIN requests :
    ( /\ requests[r].outcome.matched # 0
      /\ mock_endpoints[requests[r].outcome.matched].request_schema.kind # "none"
      /\ requests[r].body.present
      /\ BodyFails(requests[r].body,
                   mock_endpoints[requests[r].outcome.matched].request_schema) )
    => /\ requests[r].pc = "done"
       /\ requests[r].response.status_code = 400
       /\ requests[r].response.data = "Request validation failed"
       /\ \A f \in mock_endpoints[requests[r].outcome.matched].request_schema.required
                     \ requests[r].body.fields :
            \E d \in requests[r].response.details : d.message = f
       /\ requests[r].response.data #
            mock_endpoints[requests[r].outcome.matched].response_data
       /\ requests[r].outcome.response.delay_ms = 0

\* a body without "password" was rejected by the endpoint that requires it
C8_Witness ==
  \E r \in DOMAIN requests :
    /\ requests[r].pc = "done"
    /\ requests[r].outcome.matched # 0
    /\ "password" \in
         mock_endpoints[requests[r].outcome.matched].request_schema.required
    /\ requests[r].body.present
    /\ "password" \notin requests[r].body.fields
    /\ requests[r].response.status_code = 400
    /\ \E d \in requests[r].response.details : d.message = "password"

(***************************************************************************)
(* Properties of the requests quota (Spec).                                *)
(***************************************************************************)
\* in this step request n arrives and checkQuota reads the usage for it
QuotaRead(n) ==
  /\ requests[n].pc = "new"
  /\ requests'[n].pc # "new"
  /\ requests'[n].seen >= 0

\* request r passed the quota check with max_requests_per_month - 1 usage
\* records in the current month and the response of an endpoint has been
\* sent for it
ServedAtBoundary(r) ==
  /\ requests[r].admitted
  /\ requests[r].pc = "done"
  /\ requests[r].response.endpoint_id # 0
  /\ requests[r].seen = MaxRequestsPerMonth - 1
  /\ requests[r].month = month

Refused429(req) ==
  /\ ~req.admitted
  /\ req.pc = "done"
  /\ req.response.status_code = 429
  /\ req.response.code = "QUOTA_EXCEEDED"

ServedInMonth(user, m) ==
  { r \in DOMAIN requests :
      /\ requests[r].user = user
      /\ requests[r].admitted
      /\ requests[r].month = m
      /\ requests[r].pc = "done"
      /\ requests[r].response.endpoint_id # 0 }

\* C10: in every interleaving, the requests of a user that pass the quota
\* check and are served within one month number at most
\* max_requests_per_month.
C10_ServedWithinQuota ==
  \A user \in Users : \A m \in 1..MaxMonth :
    Cardinality(ServedInMonth(user, m)) <= MaxRequestsPerMonth

C13_NotFoundNotCharged ==
  \A r \in DOMAIN requests :
    requests[r].response.code = "MOCK_ENDPOINT_NOT_FOUND"
    => /\ requests[r].usage \notin {"stored"}
       /\ \A u \in api_usage : u.id # r

\* C19: when the INSERT of the usage record fails, the response that was sent
\* stays as decided by the dispatch, nothing is written, the request stays
\* answered, and a failed write is never started again.
C19_UsageFailureSwallowed ==
  [][ \A r \in DOMAIN requests :
        /\ ( requests[r].usage = "pending" /\ requests'[r].usage = "failed" )
           => /\ requests[r].pc = "done"
              /\ requests'[r].pc = "done"
              /\ requests'[r].response = requests[r].response
              /\ requests[r].response = serveMockRequest(requests[r].outcome)
              /\ api_usage' = api_usage
        /\ requests[r].usage = "failed"
           => /\ requests'[r].usage = "failed"
              /\ requests'[r].pc = "done"
              /\ requests'[r].response = requests[r].response
              /\ \A u \in api_usage' : u.id # r ]_vars

\* an endpoint's response went out with status 200 and the write of its usage
\* record failed
C19_Witness ==
  \E r \in DOMAIN requests :
    /\ requests[r].usage = "failed"
    /\ requests[r].pc = "done"
    /\ requests[r].response.status_code = 200
    /\ requests[r].response.endpoint_id # 0
    /\ \A u \in api_usage : u.id # r

CandidateOrders(endpoints, method) ==
  LET ids == { i \in DOMAIN endpoints :
                 endpoints[i].method = method /\ endpoints[i].is_active }
      n == Cardinality(ids)
      orders == { f \in [1..n -> ids] :
                    \A j, k \in 1..n :
                      j < k => /\ f[j] # f[k]
                               /\ MayPrecede(endpoints[f[j]], endpoints[f[k]]) }
  IN { [k \in 1..n |-> endpoints[f[k]]] : f \in orders }

\* C18 as claimed: for one method and path and one unchanged set of
\* endpoints, findBestMatch selects the same endpoint from every list the
\* store can return, rows that tie on pattern length and created_at included.
C18_SameEndpointInAnyOrder ==
  b_phase = "done"
  => \A c1, c2 \in CandidateOrders(b_endpoints, b_method) :
       findBestMatch(b_url, b_method, c1).id = findBestMatch(b_url, b_method, c2).id

(***************************************************************************)
(* The account-management routes of auth.routes.ts: authenticate, then     *)
(* requireVerified on the API-key routes, then checkQuotaExempt, then the  *)
(* controller.                                                             *)
(***************************************************************************)
AccountRoutes ==
  {"GET /profile", "GET /dashboard", "POST /api-keys", "DELETE /api-keys/:keyId"}

RequiresVerified(route) == route \in {"POST /api-keys", "DELETE /api-keys/:keyId"}

\* authenticate: no token is AUTH_REQUIRED, an AppError of the verification
\* is handed on as it is
authenticate(token) ==
  IF token = "none"
  THEN Rejected(AppError("Authentication required", 401, "AUTH_REQUIRED"))
  ELSE authenticateToken(token)

\* requireVerified; skipVerification is SKIP_EMAIL_VERIFICATION = 'true'
requireVerified(user, skipVerification) ==
  IF user = Anonymous
  THEN Refused(-1, AppError("Authentication required", 401, "AUTH_REQUIRED"))
  ELSE IF user \notin verified /\ ~skipVerification
  THEN Refused(-1, AppError("Email verification required", 403, "EMAIL_NOT_VERIFIED"))
  ELSE Passed(-1)

\* checkQuota(quotaType, options): options.exempt skips every test
checkQuotaOptions(exempt, user, statsOk) ==
  IF exempt THEN Passed(-1) ELSE checkQuota(user, statsOk)

\* the account routes behind the gate of checkQuota('requests') itself
checkQuotaExempt_Enforced(user, statsOk) == checkQuotaOptions(FALSE, user, statsOk)

\* checkQuotaExempt() is checkQuota('requests', { exempt: true })
checkQuotaExempt(user, statsOk) == checkQuotaOptions(TRUE, user, statsOk)

\* usage rows of earlier requests of a user in month 1
EarlierUsage(user, k) ==
  { [id |-> i, user_id |-> user, endpoint_id |-> 1, method |-> "GET",
     url_pattern |-> RoutePath, response_status_code |-> 200, month |-> 1] :
    i \in 1..k }

\* an account request: where the chain stopped, and the quota the user had left
AccountRequest(route, token, user, stats, pc, gate, response) ==
  [route |-> route, token |-> token, user |-> user,
   requests_remaining |-> stats.requests_remaining,
   endpoints_remaining |-> stats.endpoints_remaining,
   pc |-> pc, gate |-> gate, response |-> response]

\* the request stopped by the error handed to next()
Stopped(route, token, user, stats, gate, error) ==
  AccountRequest(route, token, user, stats, "done", gate, errorHandler(error))

\* the chain of a route from requireVerified on, for an authenticated user
afterAuthenticate(route, token, user, stats, skipVerification, statsOk) ==
  IF RequiresVerified(route) /\ ~requireVerified(user, skipVerification).pass
  THEN Stopped(route, token, user, stats, "none",
               requireVerified(user, skipVerification).error)
  ELSE IF ~checkQuotaExempt(user, statsOk).pass
  THEN Stopped(route, token, user, stats, "refused",
               checkQuotaExempt(user, statsOk).error)
  ELSE AccountRequest(route, token, user, stats, "controller", "passed", NoResponse)

NoStats == [requests_remaining |-> -1, endpoints_remaining |-> -1]

accountChain(route, token, skipVerification, statsOk) ==
  IF ~authenticate(token).ok
  THEN Stopped(route, token, Anonymous, NoStats, "none", authenticate(token).error)
  ELSE afterAuthenticate(route, token, authenticate(token).user,
                         getUserUsageStats(authenticate(token).user),
                         skipVerification, statsOk)

InitAccount ==
  /\ mock_endpoints = SeedEndpoints
  /\ \E user \in Users : \E k \in 0..(MaxRequestsPerMonth + 1) :
       api_usage = EarlierUsage(user, k)
  /\ month = 1
  /\ requests = <<>>
  /\ verified \in SUBSET Users
  /\ account = <<>>
  /\ MatcherIdle
  /\ BestIdle
  /\ EndpointIdle
  /\ DelayIdle

\* an account-management request runs through the chain of its route
ReceiveAccountRequest ==
  /\ \E route \in AccountRoutes, token \in Tokens,
        skipVerification \in BOOLEAN, statsOk \in BOOLEAN :
       account' = << accountChain(route, token, skipVerification, statsOk) >>
  /\ UNCHANGED <<verified, serviceVars, matcherVars, bestVars, endpointVars, delayVars>>

\* the user follows the link of the verification mail
VerifyEmail ==
  /\ \E user \in Users \ verified : verified' = verified \cup {user}
  /\ UNCHANGED <<account, serviceVars, matcherVars, bestVars, endpointVars, delayVars>>

NextAccount ==
  \/ ReceiveAccountRequest
  \/ VerifyEmail
  \/ MonthChanges

SpecAccount == InitAccount /\ [][NextAccount]_vars

\* C11: an exempt account-management request (profile, dashboard, API-key
\* creation, API-key revocation) is never answered 429 QUOTA_EXCEEDED; for an
\* authenticated user (verified where the route asks for it) the quota gate
\* lets it through to the controller whatever quota is left, none included.
C11_ExemptPassesQuotaGate ==
  \A i \in DOMAIN account :
    /\ account[i].response.status_code # 429
    /\ account[i].response.code # "QUOTA_EXCEEDED"
    /\ account[i].gate # "refused"
    /\ ( /\ account[i].user \in Users
         /\ RequiresVerified(account[i].route) => account[i].response.status_code # 403 )
       => /\ account[i].gate = "passed"
          /\ account[i].pc = "controller"

\* a user with no requests and no endpoints left fetched the profile and the
\* request reached the controller
C11_Witness ==
  \E i \in DOMAIN account :
    /\ account[i].route = "GET /profile"
    /\ account[i].user \in Users
    /\ account[i].requests_remaining = 0
    /\ account[i].endpoints_remaining = 0
    /\ getUserUsageStats(account[i].user).requests_remaining = 0
    /\ getUserUsageStats(account[i].user).endpoints_remaining = 0
    /\ account[i].gate = "passed"
    /\ account[i].pc = "controller"

(***************************************************************************)
(* Endpoint management: MockEndpointController and MockEndpointService     *)
(* over MockEndpointModel, for the calls that the middleware of            *)
(* mock-endpoint.routes.ts lets through with a body that passes            *)
(* validateCreateRequest / validateUpdateRequest.  Every await of the      *)
(* service is a step, so calls interleave between their reads and writes.  *)
(***************************************************************************)
\* user_id of a row inserted without a user
Null == "NULL"

\* a request body: method "" and url_pattern <<>> are absent fields,
\* is_active is "true" or absent, response_status_code and response_delay_ms
\* are absent ({}) or hold one number
EndpointData(method, url_pattern, is_active) ==
  [method |-> method, url_pattern |-> url_pattern, is_active |-> is_active,
   response_status_code |-> {}, response_delay_ms |-> {}]

WithResponse(data, status, delay) ==
  [data EXCEPT !.response_status_code = status, !.response_delay_ms = delay]

\* the number a present field holds
Value(field) == CHOOSE v \in field : TRUE

\* field || fallback: an absent field and 0 give the fallback
OrDefault(field, fallback) ==
  IF field = {} \/ field = {0} THEN fallback ELSE Value(field)

NoData == EndpointData("", <<>>, "undefined")

CreateRequests ==
  { EndpointData("GET", <<"/", "a">>, "undefined"),
    EndpointData("GET", <<"/", "b">>, "undefined") }

UpdateRequests ==
  { EndpointData("", <<"/", "b">>, "undefined"),
    EndpointData("POST", <<>>, "undefined"),
    EndpointData("", <<>>, "true") }

\* the ids in the path of update and delete calls
ManagedIds == {1, 4}

\* findById: the row, whatever its is_active, or none (0)
findById(id) == IF id \in DOMAIN mock_endpoints THEN id ELSE 0

\* findByMethodAndPattern without a userId: the active rows of the method and
\* pattern of every user, ORDER BY created_at DESC LIMIT 1; 0 is no row
findByMethodAndPattern(method, urlPattern) ==
  LET found == { i \in DOMAIN mock_endpoints :
                   /\ mock_endpoints[i].method = method
                   /\ mock_endpoints[i].url_pattern = urlPattern
                   /\ mock_endpoints[i].is_active }
  IN IF found = {} THEN {0}
     ELSE { i \in found :
              \A j \in found : mock_endpoints[j].created_at <= mock_endpoints[i].created_at }

\* unique_active_endpoint_per_user: a unique index on (user_id, method,
\* url_pattern) of the active rows; rows with a NULL user_id never collide
UniqueViolation(rows) ==
  \E i, j \in DOMAIN rows :
    /\ i # j
    /\ rows[i].is_active /\ rows[j].is_active
    /\ rows[i].user_id # Null
    /\ rows[i].user_id = rows[j].user_id
    /\ rows[i].method = rows[j].method
    /\ rows[i].url_pattern = rows[j].url_pattern

\* MockEndpointModel.create as the service calls it, create(data): userId is
\* undefined and the row gets user_id NULL
modelCreate(data) ==
  Append(mock_endpoints,
         Row(Len(mock_endpoints) + 1, Null, data.method, data.url_pattern, NoSchema,
             OrDefault(data.response_status_code, 200), "created",
             OrDefault(data.response_delay_ms, 0), TRUE, Len(mock_endpoints) + 1))

\* the WHERE clause of an update that never reaches inactive rows
updateMatches_ActiveOnly(id, data) ==
  /\ id \in DOMAIN mock_endpoints
  /\ mock_endpoints[id].is_active

\* the WHERE clause of MockEndpointModel.update
updateMatches(id, data) ==
  /\ id \in DOMAIN mock_endpoints
  /\ data.is_active = "true" \/ mock_endpoints[id].is_active

\* the SET clause of MockEndpointModel.update
updatedRow(row, data) ==
  [row EXCEPT !.method = IF data.method # "" THEN data.method ELSE @,
              !.url_pattern = IF data.url_pattern # <<>> THEN data.url_pattern ELSE @,
              !.response_status_code =
                 IF data.response_status_code # {} THEN Value(data.response_status_code)
                 ELSE @,
              !.response_delay_ms =
                 IF data.response_delay_ms # {} THEN Value(data.response_delay_ms)
                 ELSE @,
              !.is_active = IF data.is_active = "true" THEN TRUE ELSE @]

modelUpdate(id, data) ==
  IF updateMatches(id, data)
  THEN [mock_endpoints EXCEPT ![id] = updatedRow(@, data)]
  ELSE mock_endpoints

\* the WHERE clause of softDelete without 'AND is_active = true'
softDeleteMatches_AnyRow(id) == id \in DOMAIN mock_endpoints

\* MockEndpointModel.softDelete
softDeleteMatches(id) ==
  /\ id \in DOMAIN mock_endpoints
  /\ mock_endpoints[id].is_active

softDelete(id) ==
  IF softDeleteMatches(id)
  THEN [mock_endpoints EXCEPT ![id].is_active = FALSE]
  ELSE mock_endpoints

\* the responses of MockEndpointController
Answer(status_code, code) == HttpResponse(status_code, code, "", {}, 0)

ValidationFailed == errorHandler(AppError("Validation failed", 400, "VALIDATION_ERROR"))

EndpointNotFound == errorHandler(AppError("Mock endpoint not found", 404, "ENDPOINT_NOT_FOUND"))

\* a management call: its input, what the service has read so far (existing
\* is the method and pattern findById returned, conflicting the id the
\* duplicate check returned), the row it created, and its response
NewOp ==
  [pc |-> "new", kind |-> "", user |-> "", id |-> 0, data |-> NoData,
   method |-> "", url_pattern |-> <<>>, conflicting |-> 0, created |-> 0,
   response |-> NoResponse]

Started(op, kind, user, id, data) ==
  [op EXCEPT !.kind = kind, !.user = user, !.id = id, !.data = data]

Finished(op, response) == [op EXCEPT !.pc = "done", !.response = response]

InOrder(o) == IF o = 1 THEN TRUE ELSE ops[o - 1].pc # "new"

InitEndpoints ==
  /\ mock_endpoints = SeedEndpoints
  /\ api_usage = {}
  /\ month = 1
  /\ requests = <<>>
  /\ ops = [o \in 1..MaxOps |-> NewOp]
  /\ MatcherIdle
  /\ BestIdle
  /\ AccountIdle
  /\ DelayIdle

\* createEndpoint up to the answer of its duplicate check
createChecked(op, existing) ==
  IF existing # 0
  THEN Finished([op EXCEPT !.conflicting = existing], ValidationFailed)
  ELSE [op EXCEPT !.pc = "insert"]

CreateEndpointCheck(o) ==
  /\ ops[o].pc = "new"
  /\ InOrder(o)
  /\ \E user \in Managers, data \in CreateRequests :
     \E existing \in findByMethodAndPattern(data.method, data.url_pattern) :
       ops' = [ops EXCEPT
                 ![o] = createChecked(Started(ops[o], "create", user, 0, data), existing)]
  /\ UNCHANGED <<mock_endpoints, api_usage, month, requests,
                 matcherVars, bestVars, accountVars, delayVars>>

\* createEndpoint from model.create on: the INSERT, then 201, or the error
\* of the INSERT rethrown as 'Failed to create mock endpoint'
CreateEndpointInsert(o) ==
  /\ ops[o].pc = "insert"
  /\ IF UniqueViolation(modelCreate(ops[o].data))
     THEN /\ ops' = [ops EXCEPT
                       ![o] = Finished(@, errorHandler(PlainError("Failed to create mock endpoint")))]
          /\ UNCHANGED mock_endpoints
     ELSE /\ mock_endpoints' = modelCreate(ops[o].data)
          /\ ops' = [ops EXCEPT
                       ![o] = Finished([@ EXCEPT !.created = Len(mock_endpoints) + 1],
                                       Answer(201, ""))]
  /\ UNCHANGED <<api_usage, month, requests,
                 matcherVars, bestVars, accountVars, delayVars>>

\* updateEndpoint up to the answer of findById
updateFound(op, existing) ==
  IF existing = 0
  THEN Finished(op, ValidationFailed)
  ELSE IF op.data.method # "" \/ op.data.url_pattern # <<>>
  THEN [op EXCEPT !.pc = "conflict",
                  !.method = IF op.data.method # "" THEN op.data.method
                             ELSE mock_endpoints[existing].method,
                  !.url_pattern = IF op.data.url_pattern # <<>> THEN op.data.url_pattern
                                  ELSE mock_endpoints[existing].url_pattern]
  ELSE [op EXCEPT !.pc = "write"]

UpdateEndpointFind(o) ==
  /\ ops[o].pc = "new"
  /\ InOrder(o)
  /\ \E id \in ManagedIds, data \in UpdateRequests :
       ops' = [ops EXCEPT
                 ![o] = updateFound(Started(ops[o], "update", "", id, data), findById(id))]
  /\ UNCHANGED <<mock_endpoints, api_usage, month, requests,
                 matcherVars, bestVars, accountVars, delayVars>>

\* updateEndpoint up to the answer of its conflict check
updateChecked(op, conflicting) ==
  IF conflicting # 0 /\ conflicting # op.id
  THEN Finished([op EXCEPT !.conflicting = conflicting], ValidationFailed)
  ELSE [op EXCEPT !.pc = "write"]

UpdateEndpointCheck(o) ==
  /\ ops[o].pc = "conflict"
  /\ \E conflicting \in findByMethodAndPattern(ops[o].method, ops[o].url_pattern) :
       ops' = [ops EXCEPT ![o] = updateChecked(@, conflicting)]
  /\ UNCHANGED <<mock_endpoints, api_usage, month, requests,
                 matcherVars, bestVars, accountVars, delayVars>>

\* updateEndpoint from model.update on: the UPDATE, then 200, 404 when no
\* row was updated, or the error of the UPDATE rethrown
UpdateEndpointWrite(o) ==
  /\ ops[o].pc = "write"
  /\ IF ~updateMatches(ops[o].id, ops[o].data)
     THEN /\ ops' = [ops EXCEPT ![o] = Finished(@, EndpointNotFound)]
          /\ UNCHANGED mock_endpoints
     ELSE IF UniqueViolation(modelUpdate(ops[o].id, ops[o].data))
     THEN /\ ops' = [ops EXCEPT
                       ![o] = Finished(@, errorHandler(PlainError("Failed to update mock endpoint")))]
          /\ UNCHANGED mock_endpoints
     ELSE /\ mock_endpoints' = modelUpdate(ops[o].id, ops[o].data)
          /\ ops' = [ops EXCEPT ![o] = Finished(@, Answer(200, ""))]
  /\ UNCHANGED <<api_usage, month, requests,
                 matcherVars, bestVars, accountVars, delayVars>>

\* deleteEndpoint: the soft delete, then 200, or 404 when no row was updated
DeleteEndpoint(o) ==
  /\ ops[o].pc = "new"
  /\ InOrder(o)
  /\ \E id \in ManagedIds :
       /\ mock_endpoints' = softDelete(id)
       /\ ops' = [ops EXCEPT
                    ![o] = Finished(Started(@, "delete", "", id, NoData),
                                    IF softDeleteMatches(id) THEN Answer(200, "")
                                    ELSE EndpointNotFound)]
  /\ UNCHANGED <<api_usage, month, requests,
                 matcherVars, bestVars, accountVars, delayVars>>

NextEndpoints ==
  \/ \E o \in DOMAIN ops : CreateEndpointCheck(o)
  \/ \E o \in DOMAIN ops : CreateEndpointInsert(o)
  \/ \E o \in DOMAIN ops : UpdateEndpointFind(o)
  \/ \E o \in DOMAIN ops : UpdateEndpointCheck(o)
  \/ \E o \in DOMAIN ops : UpdateEndpointWrite(o)
  \/ \E o \in DOMAIN ops : DeleteEndpoint(o)

SpecEndpoints == InitEndpoints /\ [][NextEndpoints]_vars

(***************************************************************************)
(* Properties of endpoint management (SpecEndpoints).                      *)
(***************************************************************************)
\* the user who owns a row: its user_id, and for a row stored without one
\* the user whose createEndpoint call inserted it
Owner(id) ==
  IF mock_endpoints[id].user_id # Null THEN mock_endpoints[id].user_id
  ELSE CHOOSE u \in Managers :
         \E o \in DOMAIN ops : ops[o].created = id /\ ops[o].user = u

\* C14 as claimed: createEndpoint is refused as a duplicate only when the
\* active endpoint found for the (method, url_pattern) belongs to the caller;
\* with the same (method, url_pattern) active under another owner only, the
\* call succeeds.
C14_ConflictOnlyWithinOwner ==
  \A o \in DOMAIN ops :
    ( /\ ops[o].kind = "create"
      /\ ops[o].pc = "done"
      /\ ops[o].conflicting # 0 )
    => Owner(ops[o].conflicting) = ops[o].user

\* C15 as claimed: in every reachable state no two active endpoints of one
\* owner have the same (method, url_pattern).
C15_UniquePerOwner ==
  \A i, j \in DOMAIN mock_endpoints :
    ( /\ i # j
      /\ mock_endpoints[i].is_active /\ mock_endpoints[j].is_active
      /\ mock_endpoints[i].method = mock_endpoints[j].method
      /\ mock_endpoints[i].url_pattern = mock_endpoints[j].url_pattern )
    => Owner(i) # Owner(j)

\* row id is among the candidates dispatch reads for its method, in each
\* order the store can return them, and passes the filter of findBestMatch
\* for a path that its pattern matches
Selectable(rows, id) ==
  /\ rows[id].is_active
  /\ \A candidates \in CandidateOrders(rows, rows[id].method) :
       /\ \E k \in DOMAIN candidates : candidates[k] = rows[id]
       /\ \E k \in DOMAIN MatchingEndpoints(rows[id].url_pattern, rows[id].method,
                                           candidates) :
            MatchingEndpoints(rows[id].url_pattern, rows[id].method,
                              candidates)[k].id = id

\* the step in which updateEndpoint with is_active = true and no other field
\* writes to an inactive row
Reactivates(o) ==
  /\ ops[o].pc = "write"
  /\ ops'[o].pc = "done"
  /\ ops[o].data = EndpointData("", <<>>, "true")
  /\ ~mock_endpoints[ops[o].id].is_active

PositiveDelays ==
  { SeedEndpoints[i].response_delay_ms : i \in DOMAIN SeedEndpoints } \ {0}

TickMs == CHOOSE d \in PositiveDelays : \A e \in PositiveDelays : d <= e

\* a delay in ticks, rounded up
Ticks(delay_ms) == (delay_ms + TickMs - 1) \div TickMs

\* the requests whose timing is observed: one for the endpoint without a
\* delay, one for the endpoint with the delay
TimedRequests ==
  { MockRequest("GET", <<"/", "a">>, NoBody),
    MockRequest("POST", <<"/", "a">>, Body({"email", "password"})) }

\* a request under the clock: before holds the requests that were answered
\* when it came in, wake is the tick its timer is due, done_at the tick of
\* its response and rank its place in the order of the responses
NewTimed ==
  [pc |-> "new", before |-> {}, outcome |-> NoOutcome, wake |-> 0,
   done_at |-> 0, rank |-> 0, response |-> NoResponse]

Answered == { r \in DOMAIN timed : timed[r].pc = "done" }

\* res.json of the controller: the response goes out now
AnswerNow(req) ==
  [req EXCEPT !.pc = "done", !.done_at = now, !.rank = Cardinality(Answered) + 1,
              !.response = serveMockRequest(req.outcome)]

InitDelay ==
  /\ mock_endpoints = SeedEndpoints
  /\ api_usage = {}
  /\ month = 1
  /\ requests = <<>>
  /\ now = 0
  /\ timed = [r \in 1..MaxMockRequests |-> NewTimed]
  /\ MatcherIdle
  /\ BestIdle
  /\ AccountIdle
  /\ EndpointIdle

\* the request comes in and handleMockRequest starts the candidates query
SubmitTimed(r) ==
  /\ timed[r].pc = "new"
  /\ timed' = [timed EXCEPT ![r].pc = "handler", ![r].before = Answered]
  /\ UNCHANGED <<now, serviceVars, matcherVars, bestVars, accountVars, endpointVars>>

\* handleMockRequest after the candidates have arrived: asleep until wake,
\* or answered by the controller
timedHandled(req, outcome) ==
  IF outcome.kind = "sleep"
  THEN [req EXCEPT !.pc = "sleep", !.outcome = outcome,
                   !.wake = now + Ticks(outcome.response.delay_ms)]
  ELSE AnswerNow([req EXCEPT !.outcome = outcome])

\* the candidates query of a request returns
CandidatesArrive(r) ==
  /\ timed[r].pc = "handler"
  /\ \E mockRequest \in TimedRequests :
     \E candidates \in findMatchingEndpoints(mockRequest.method) :
     \E outcome \in {handleMockRequest(mockRequest, TRUE, candidates)} :
       timed' = [timed EXCEPT ![r] = timedHandled(timed[r], outcome)]
  /\ UNCHANGED <<now, serviceVars, matcherVars, bestVars, accountVars, endpointVars>>

\* a timer that fires as soon as it is set
TimerDue_AtOnce(req) == req.wake >= 0

\* setTimeout: the callback runs when the delay has passed, or later
TimerDue(req) == now >= req.wake

TimerFires(r) ==
  /\ timed[r].pc = "sleep"
  /\ TimerDue(timed[r])
  /\ timed' = [timed EXCEPT ![r] = AnswerNow(timed[r])]
  /\ UNCHANGED <<now, serviceVars, matcherVars, bestVars, accountVars, endpointVars>>

\* TickMs of time pass
Elapse ==
  /\ now < MaxTicks
  /\ now' = now + 1
  /\ UNCHANGED <<timed, serviceVars, matcherVars, bestVars, accountVars, endpointVars>>

NextDelay ==
  \/ \E r \in DOMAIN timed : SubmitTimed(r)
  \/ \E r \in DOMAIN timed : CandidatesArrive(r)
  \/ \E r \in DOMAIN timed : TimerFires(r)
  \/ Elapse

SpecDelay == InitDelay /\ [][NextDelay]_vars

\* two requests were in flight together: neither came in after the other
\* had been answered
Concurrent(a, b) == a \notin timed[b].before /\ b \notin timed[a].before

\* a was served with a delay and b without one, and both are answered
DelayedAndPrompt(a, b) ==
  /\ timed[a].pc = "done" /\ timed[b].pc = "done"
  /\ timed[a].response.endpoint_id # 0 /\ timed[b].response.endpoint_id # 0
  /\ timed[a].outcome.response.delay_ms > 0
  /\ timed[b].outcome.response.delay_ms = 0

AllowedMethods == {"GET", "POST", "PUT", "DELETE", "PATCH"}

\* config.mock.maxResponseDelay, default of MAX_RESPONSE_DELAY_MS
maxResponseDelay == 10000

ErrorIf(cond, field) == IF cond THEN {field} ELSE {}

StartsWithSlash(url_pattern) ==
  IF Len(url_pattern) = 0 THEN FALSE ELSE url_pattern[1] = "/"

\* .optional().isInt({ min, max }): an absent field passes
IsIntIn(field, min, max) == \A v \in field : v >= min /\ v <= max

\* createMockEndpointValidation without the rules of response_status_code
\* and response_delay_ms
createMockEndpointValidation_NoRanges(data) ==
  ErrorIf(data.method \notin AllowedMethods, "method")
  \cup ErrorIf(~StartsWithSlash(data.url_pattern), "url_pattern")

\* createMockEndpointValidation: the fields with an error
createMockEndpointValidation(data) ==
  ErrorIf(data.method \notin AllowedMethods, "method")
  \cup ErrorIf(~StartsWithSlash(data.url_pattern), "url_pattern")
  \cup ErrorIf(~IsIntIn(data.response_status_code, 100, 599), "response_status_code")
  \cup ErrorIf(~IsIntIn(data.response_delay_ms, 0, 10000), "response_delay_ms")

\* updateMockEndpointValidation: every field is optional
updateMockEndpointValidation(data) ==
  ErrorIf(data.method # "" /\ data.method \notin AllowedMethods, "method")
  \cup ErrorIf(data.url_pattern # <<>> /\ ~StartsWithSlash(data.url_pattern),
               "url_pattern")
  \cup ErrorIf(~IsIntIn(data.response_status_code, 100, 599), "response_status_code")
  \cup ErrorIf(~IsIntIn(data.response_delay_ms, 0, 10000), "response_delay_ms")

\* a number that is present and not 0, the test `field && (...)`
Truthy(field) == field # {} /\ field # {0}

\* MockEndpointService.validateCreateRequest: the fields with an error
validateCreateRequest(data) ==
  ErrorIf(data.method = "" \/ data.method \notin AllowedMethods, "method")
  \cup ErrorIf(~StartsWithSlash(data.url_pattern), "url_pattern")
  \cup ErrorIf(/\ Truthy(data.response_status_code)
               /\ \E v \in data.response_status_code : v < 100 \/ v >= 600,
               "response_status_code")
  \cup ErrorIf(/\ Truthy(data.response_delay_ms)
               /\ \E v \in data.response_delay_ms : v < 0 \/ v > maxResponseDelay,
               "response_delay_ms")

\* MockEndpointService.validateUpdateRequest
validateUpdateRequest(data) ==
  ErrorIf(data.method # "" /\ data.method \notin AllowedMethods, "method")
  \cup ErrorIf(data.url_pattern # <<>> /\ ~StartsWithSlash(data.url_pattern),
               "url_pattern")
  \cup ErrorIf(\E v \in data.response_status_code : v < 100 \/ v >= 600,
               "response_status_code")
  \cup ErrorIf(\E v \in data.response_delay_ms : v < 0 \/ v > maxResponseDelay,
               "response_delay_ms")

\* what a service call leaves: the rows of mock_endpoints, the response of
\* the controller, the id of the row it created and the rows it returned or
\* wrote
Result(rows, response, created, affected) ==
  [rows |-> rows, response |-> response, created |-> created, affected |-> affected]

\* createEndpoint(data); existing is what findByMethodAndPattern returned
createEndpoint(data, existing) ==
  IF validateCreateRequest(data) # {}
  THEN Result(mock_endpoints, ValidationFailed, 0, {})
  ELSE IF existing # 0
  THEN Result(mock_endpoints, ValidationFailed, 0, {})
  ELSE IF UniqueViolation(modelCreate(data))
  THEN Result(mock_endpoints, errorHandler(PlainError("Failed to create mock endpoint")),
              0, {})
  ELSE Result(modelCreate(data), Answer(201, ""), Len(mock_endpoints) + 1, {})

\* getEndpoint(id): model.findById(id), the row of any user
getEndpoint(id) ==
  IF findById(id) = 0 THEN Result(mock_endpoints, EndpointNotFound, 0, {})
  ELSE Result(mock_endpoints, Answer(200, ""), 0, {id})

\* listEndpoints(query) with an empty query: model.findMany without a
\* userId, the first 50 rows of the table
listEndpoints ==
  Result(mock_endpoints, Answer(200, ""), 0, DOMAIN mock_endpoints)

\* the (method, url_pattern) of the conflict check of updateEndpoint
updateTarget(id, data) ==
  [method |-> IF data.method # "" THEN data.method ELSE mock_endpoints[id].method,
   url_pattern |-> IF data.url_pattern # <<>> THEN data.url_pattern
                   ELSE mock_endpoints[id].url_pattern]

\* updateEndpoint(id, data); conflicting is what findByMethodAndPattern
\* returned, 0 when it was not called or found nothing
updateEndpoint(id, data, conflicting) ==
  IF validateUpdateRequest(data) # {}
  THEN Result(mock_endpoints, ValidationFailed, 0, {})
  ELSE IF findById(id) = 0
  THEN Result(mock_endpoints, ValidationFailed, 0, {})
  ELSE IF /\ data.method # "" \/ data.url_pattern # <<>>
          /\ conflicting # 0 /\ conflicting # id
  THEN Result(mock_endpoints, ValidationFailed, 0, {})
  ELSE IF ~updateMatches(id, data)
  THEN Result(mock_endpoints, EndpointNotFound, 0, {})
  ELSE IF UniqueViolation(modelUpdate(id, data))
  THEN Result(mock_endpoints, errorHandler(PlainError("Failed to update mock endpoint")),
              0, {})
  ELSE Result(modelUpdate(id, data), Answer(200, ""), 0, {id})

\* deleteEndpoint(id)
deleteEndpoint(id) ==
  IF softDeleteMatches(id) THEN Result(softDelete(id), Answer(200, ""), 0, {id})
  ELSE Result(mock_endpoints, EndpointNotFound, 0, {})

\* hasQuota of checkQuota('endpoints')
HasEndpointQuota(usageStats) == usageStats.endpoints_remaining > 0

\* checkQuota('endpoints')
checkEndpointQuota(user) ==
  IF user = Anonymous
  THEN Refused(-1, AppError("Authentication required to access mock endpoints",
                            401, "AUTH_REQUIRED"))
  ELSE IF HasEndpointQuota(getUserUsageStats(user))
  THEN Passed(getUserUsageStats(user).current_period_endpoints)
  ELSE Refused(getUserUsageStats(user).current_period_endpoints,
               AppError("Endpoint limit exceeded", 429, "QUOTA_EXCEEDED"))

\* POST /, PUT /:id and DELETE /:id have requireVerified before and
\* trackUsage after their validation; GET / and GET /:id have neither
Mutating(kind) == kind \in {"create", "update", "delete"}

\* the express-validator chain of a route; the ids of the paths are UUIDs
routeValidation(kind, data) ==
  IF kind = "create" THEN createMockEndpointValidation(data)
  ELSE IF kind = "update" THEN updateMockEndpointValidation(data)
  ELSE {}

\* the middleware that stops a request with the error it hands to next(),
\* or none
Gate(stopped_by, error) == [stopped_by |-> stopped_by, error |-> error]

GateOpen == Gate("", PlainError(""))

manageGate(kind, token, data) ==
  IF ~authenticate(token).ok
  THEN Gate("authenticate", authenticate(token).error)
  ELSE IF ~checkQuota(authenticate(token).user, TRUE).pass
  THEN Gate("checkQuota('requests')", checkQuota(authenticate(token).user, TRUE).error)
  ELSE IF ~checkEndpointQuota(authenticate(token).user).pass
  THEN Gate("checkQuota('endpoints')", checkEndpointQuota(authenticate(token).user).error)
  ELSE IF Mutating(kind) /\ ~requireVerified(authenticate(token).user, FALSE).pass
  THEN Gate("requireVerified", requireVerified(authenticate(token).user, FALSE).error)
  ELSE IF routeValidation(kind, data) # {}
  THEN Gate("validation", AppError("Validation failed", 400, "VALIDATION_ERROR"))
  ELSE GateOpen

\* the chain of the mock route: optionalAuthenticate, checkQuota('requests')
mockGate(token) ==
  IF ~checkQuota(optionalAuthenticate(token), TRUE).pass
  THEN Gate("checkQuota('requests')", checkQuota(optionalAuthenticate(token), TRUE).error)
  ELSE GateOpen

\* req.method and req.route.path of a request
RouteMethod(kind, method) ==
  IF kind = "create" THEN "POST"
  ELSE IF kind = "update" THEN "PUT"
  ELSE IF kind = "delete" THEN "DELETE"
  ELSE IF kind = "mock" THEN method
  ELSE "GET"

RouteOf(kind) ==
  IF kind = "mock" THEN RoutePath
  ELSE IF kind \in {"create", "list"} THEN <<"/">>
  ELSE <<"/", ":", "i", "d">>

\* a request to one of the routes: its input, the middleware that stopped
\* it, and what its handler did
NewCall ==
  [pc |-> "new", kind |-> "", token |-> "none", user |-> Anonymous, id |-> 0,
   data |-> NoData, method |-> "", stopped_by |-> "", created |-> 0,
   affected |-> {}, response |-> NoResponse, usage |-> "none"]

Arrived(call, kind, token, user, id, data, method) ==
  [call EXCEPT !.kind = kind, !.token = token, !.user = user, !.id = id,
               !.data = data, !.method = RouteMethod(kind, method)]

\* a chain with trackUsage in front of the quota gates: the response of a
\* refused request goes through the wrapped res.send
refuse_Tracked(call, gate) ==
  [call EXCEPT !.pc = "done", !.stopped_by = gate.stopped_by,
               !.response = errorHandler(gate.error),
               !.usage = IF call.user # Anonymous THEN "pending" ELSE "none"]

\* next(error) before trackUsage has wrapped res.send
refuse(call, gate) ==
  [call EXCEPT !.pc = "done", !.stopped_by = gate.stopped_by,
               !.response = errorHandler(gate.error)]

\* the handler ran and answered through res.send
answer(call, tracked, response, created, affected) ==
  [call EXCEPT !.pc = "done", !.response = response, !.created = created,
               !.affected = affected,
               !.usage = IF tracked /\ call.user # Anonymous THEN "pending" ELSE "none"]

manageHandled(call, gate, result) ==
  IF gate.stopped_by # "" THEN refuse(call, gate)
  ELSE answer(call, Mutating(call.kind), result.response, result.created,
              result.affected)

mockHandled(call, gate, outcome) ==
  IF gate.stopped_by # "" THEN refuse(call, gate)
  ELSE answer(call, TRUE, serveMockRequest(outcome), 0, {})

\* the Authorization header of a management request: absent, or the valid
\* credential of a user
ManageTokens == {"none"} \cup Managers

\* the row trackApiUsage inserts for a request; req.endpointId is set by
\* serveMockRequest only
CallUsageRow(o) ==
  [id |-> o,
   user_id |-> ops[o].user,
   endpoint_id |-> ops[o].response.endpoint_id,
   method |-> ops[o].method,
   url_pattern |-> RouteOf(ops[o].kind),
   response_status_code |-> ops[o].response.status_code,
   month |-> month]

InitManage ==
  /\ mock_endpoints = SeedEndpoints
  /\ api_usage = {}
  /\ month = 1
  /\ requests = <<>>
  /\ ops = [o \in 1..MaxOps |-> NewCall]
  /\ verified = Managers
  /\ account = <<>>
  /\ MatcherIdle
  /\ BestIdle
  /\ DelayIdle

\* a request to a management route goes through the chain of the route
ManageStep(o, kind, token, id, data, result) ==
  /\ ops[o].pc = "new"
  /\ InOrder(o)
  /\ ops' = [ops EXCEPT
               ![o] = manageHandled(Arrived(@, kind, token, authenticate(token).user,
                                            id, data, ""),
                                    manageGate(kind, token, data), result)]
  /\ mock_endpoints' = IF manageGate(kind, token, data).stopped_by = ""
                       THEN result.rows ELSE mock_endpoints
  /\ UNCHANGED <<api_usage, month, requests, matcherVars, bestVars,
                 accountVars, delayVars>>

\* POST /api/v1/mock-endpoints
PostMockEndpoint(o) ==
  \E token \in ManageTokens, data \in CreateRequests :
  \E existing \in findByMethodAndPattern(data.method, data.url_pattern) :
    ManageStep(o, "create", token, 0, data, createEndpoint(data, existing))

\* GET /api/v1/mock-endpoints
ListMockEndpoints(o) ==
  \E token \in ManageTokens :
    ManageStep(o, "list", token, 0, NoData, listEndpoints)

\* GET /api/v1/mock-endpoints/:id
GetMockEndpoint(o) ==
  \E token \in ManageTokens, id \in ManagedIds :
    ManageStep(o, "get", token, id, NoData, getEndpoint(id))

\* PUT /api/v1/mock-endpoints/:id
PutMockEndpoint(o) ==
  \E token \in ManageTokens, id \in ManagedIds, data \in UpdateRequests :
  \E conflicting \in findByMethodAndPattern(updateTarget(id, data).method,
                                            updateTarget(id, data).url_pattern) :
    ManageStep(o, "update", token, id, data, updateEndpoint(id, data, conflicting))

\* DELETE /api/v1/mock-endpoints/:id
DeleteMockEndpoint(o) ==
  \E token \in ManageTokens, id \in ManagedIds :
    ManageStep(o, "delete", token, id, NoData, deleteEndpoint(id))

\* router.all('/*') of the mock route: the gate, then serveMockRequest up to
\* its response
AllMock(o) ==
  /\ ops[o].pc = "new"
  /\ InOrder(o)
  /\ \E token \in ManageTokens, mockRequest \in TimedRequests :
     \E candidates \in findMatchingEndpoints(mockRequest.method) :
     \E outcome \in {handleMockRequest(mockRequest, TRUE, candidates)} :
       ops' = [ops EXCEPT
                 ![o] = mockHandled(Arrived(@, "mock", token, optionalAuthenticate(token),
                                            0, NoData, mockRequest.method),
                                    mockGate(token), outcome)]
  /\ UNCHANGED <<mock_endpoints, api_usage, month, requests, matcherVars, bestVars,
                 accountVars, delayVars>>

\* the INSERT of trackApiUsage commits; an INSERT that fails leaves the
\* request as it is
TrackApiUsage(o) ==
  /\ ops[o].usage = "pending"
  /\ api_usage' = api_usage \cup {CallUsageRow(o)}
  /\ ops' = [ops EXCEPT ![o].usage = "stored"]
  /\ UNCHANGED <<mock_endpoints, month, requests, matcherVars, bestVars,
                 accountVars, delayVars>>

NextManage ==
  \/ \E o \in DOMAIN ops : PostMockEndpoint(o)
  \/ \E o \in DOMAIN ops : ListMockEndpoints(o)
  \/ \E o \in DOMAIN ops : GetMockEndpoint(o)
  \/ \E o \in DOMAIN ops : PutMockEndpoint(o)
  \/ \E o \in DOMAIN ops : DeleteMockEndpoint(o)
  \/ \E o \in DOMAIN ops : AllMock(o)
  \/ \E o \in DOMAIN ops : TrackApiUsage(o)

SpecManage == InitManage /\ [][NextManage]_vars

(***************************************************************************)
(* Properties of the management routes (SpecManage).                       *)
(***************************************************************************)
\* C21 as claimed: getEndpoint, listEndpoints, updateEndpoint and
\* deleteEndpoint called by a user return, modify and deactivate only
\* endpoints that this user owns.
C21_ScopedToCaller ==
  \A o \in DOMAIN ops :
    ops[o].kind \in {"get", "list", "update", "delete"}
    => \A id \in ops[o].affected : Owner(id) = ops[o].user

\* C22: a request that checkQuota refuses with QUOTA_EXCEEDED is answered
\* 429 in the step that refused it, and that step leaves the endpoints and
\* the usage records as they were, starts no usage record, creates, returns
\* and serves nothing; no usage record is ever stored for such a request.
C22_RefusedBeforeHandler ==
  [][ /\ \A o \in DOMAIN ops :
           ( /\ ops[o].pc = "new"
             /\ ops'[o].pc = "done"
             /\ ops'[o].response.code = "QUOTA_EXCEEDED" )
           => /\ ops'[o].response.status_code = 429
              /\ ops'[o].stopped_by \in {"checkQuota('requests')", "checkQuota('endpoints')"}
              /\ mock_endpoints' = mock_endpoints
              /\ api_usage' = api_usage
              /\ ops'[o].usage = "none"
              /\ ops'[o].created = 0
              /\ ops'[o].affected = {}
              /\ ops'[o].response.endpoint_id = 0
      /\ \A u \in api_usage' : ops'[u.id].response.code # "QUOTA_EXCEEDED" ]_vars

\* u2 created an endpoint and the usage record of the request was stored;
\* the next create of u2 was refused 429 by the requests gate and the table
\* has the one new row only
C22_Witness ==
  \E a, b \in DOMAIN ops :
    /\ ops[a].kind = "create" /\ ops[a].user = "u2"
    /\ ops[a].response.status_code = 201
    /\ ops[a].usage = "stored"
    /\ ops[b].kind = "create" /\ ops[b].user = "u2"
    /\ ops[b].data = EndpointData("GET", <<"/", "b">>, "undefined")
    /\ ops[b].pc = "done"
    /\ ops[b].response.status_code = 429
    /\ ops[b].response.code = "QUOTA_EXCEEDED"
    /\ ops[b].stopped_by = "checkQuota('requests')"
    /\ Len(mock_endpoints) = Len(SeedEndpoints) + 1
    /\ Cardinality(api_usage) = 1

\* C23 as claimed: the endpoints quota refuses creation only; a delete (or a
\* read or an update) is never refused by it, so a user at max_endpoints can
\* always deactivate an endpoint and create again.
C23_EndpointQuotaGatesCreationOnly ==
  \A o \in DOMAIN ops :
    ( ops[o].pc = "done" /\ ops[o].kind # "create" )
    => ops[o].stopped_by # "checkQuota('endpoints')"

(***************************************************************************)
(* Properties of the steps of one mock request (Spec).                     *)
(***************************************************************************)
\* the request was answered 404 for want of a match, or 400 by the schema
\* check
AnsweredWithoutMatch(req) ==
  req.response.status_code = 404 /\ req.response.code = "MOCK_ENDPOINT_NOT_FOUND"

AnsweredInvalid(req) ==
  req.response.status_code = 400 /\ req.response.data = "Request validation failed"

\* the body of the request passes the schema check of endpoint id
PassesSchema(req, id) ==
  \/ mock_endpoints[id].request_schema.kind = "none"
  \/ ~req.body.present
  \/ validateRequestBody(req.body, mock_endpoints[id].request_schema).isValid

C25_UsageRecordFields ==
  \A u \in api_usage :
    u.endpoint_id # 0
    => /\ u.user_id = requests[u.id].user
       /\ u.method = requests[u.id].method
       /\ u.endpoint_id = requests[u.id].outcome.matched
       /\ u.url_pattern = mock_endpoints[u.endpoint_id].url_pattern
       /\ u.response_status_code = requests[u.id].response.status_code

(***************************************************************************)
(* The create and update routes under bodies of every kind: valid ones,    *)
(* and bodies with one field that breaks a rule.  The requests are sent by *)
(* a verified user with endpoints to spare.                                *)
(***************************************************************************)
StatusInputs == {0, 99, 100, 599, 600}

DelayInputs == {-1, 0, maxResponseDelay, maxResponseDelay + 1}

CreateBodies ==
  CreateRequests
  \cup { EndpointData("TRACE", <<"/", "b">>, "undefined"),
         EndpointData("GET", <<"b">>, "undefined") }
  \cup { WithResponse(EndpointData("GET", <<"/", "b">>, "undefined"), {status}, {}) :
           status \in StatusInputs }
  \cup { WithResponse(EndpointData("GET", <<"/", "b">>, "undefined"), {}, {delay}) :
           delay \in DelayInputs }

UpdateBodies ==
  UpdateRequests
  \cup { EndpointData("TRACE", <<>>, "undefined"),
         EndpointData("", <<"b">>, "undefined") }
  \cup { WithResponse(NoData, {status}, {}) : status \in StatusInputs }
  \cup { WithResponse(NoData, {}, {delay}) : delay \in DelayInputs }

BodySender == "u2"

\* POST /api/v1/mock-endpoints with any of the bodies
PostBody(o) ==
  \E data \in CreateBodies :
  \E existing \in findByMethodAndPattern(data.method, data.url_pattern) :
    ManageStep(o, "create", BodySender, 0, data, createEndpoint(data, existing))

\* PUT /api/v1/mock-endpoints/:id with any of the bodies
PutBody(o) ==
  \E id \in ManagedIds, data \in UpdateBodies :
  \E conflicting \in findByMethodAndPattern(updateTarget(id, data).method,
                                            updateTarget(id, data).url_pattern) :
    ManageStep(o, "update", BodySender, id, data, updateEndpoint(id, data, conflicting))

NextBodies ==
  \/ \E o \in DOMAIN ops : PostBody(o)
  \/ \E o \in DOMAIN ops : PutBody(o)
  \/ \E o \in DOMAIN ops : TrackApiUsage(o)

SpecBodies == InitManage /\ [][NextBodies]_vars

\* the stored endpoint keeps the rules of the spec
ValidEndpoint(row) ==
  /\ row.method \in {"GET", "POST", "PUT", "DELETE", "PATCH"}
  /\ Len(row.url_pattern) > 0
  /\ row.url_pattern[1] = "/"
  /\ row.response_status_code >= 100 /\ row.response_status_code < 600
  /\ row.response_delay_ms >= 0 /\ row.response_delay_ms <= maxResponseDelay

\* a field that the body carries breaks its rule
BreaksRule(data) ==
  \/ data.method # "" /\ data.method \notin {"GET", "POST", "PUT", "DELETE", "PATCH"}
  \/ data.url_pattern # <<>> /\ data.url_pattern[1] # "/"
  \/ \E v \in data.response_status_code : v < 100 \/ v >= 600
  \/ \E v \in data.response_delay_ms : v < 0 \/ v > maxResponseDelay

UsedUp ==
  { [id |-> 0 - i, user_id |-> "u1", endpoint_id |-> 1, method |-> "GET",
     url_pattern |-> RoutePath, response_status_code |-> 200, month |-> 1] :
    i \in 1..MaxRequestsPerMonth }

InitRollover ==
  /\ mock_endpoints = SeedEndpoints
  /\ api_usage = UsedUp
  /\ month = 1
  /\ requests = [r \in 1..MaxMockRequests |-> NewRequest]
  /\ MatcherIdle
  /\ BestIdle
  /\ AuxIdle

SpecRollover == InitRollover /\ [][Next]_vars

\* the usage records of a user with a date key in month m
RecordsOfMonth(user, m) ==
  { u \in api_usage : u.user_id = user /\ u.month = m }

\* C27: the requests gate counts the usage records of the current calendar
\* month only: an identified caller whose usage was read is admitted exactly
\* when fewer than max_requests_per_month of the caller's records lie in the
\* current month, whatever lies in earlier months, and is refused 429
\* otherwise; no step removes a usage record.
C27_MonthRollover ==
  [][ /\ api_usage \subseteq api_usage'
      /\ \A r \in DOMAIN requests :
           ( /\ requests[r].pc = "new"
             /\ requests'[r].pc # "new"
             /\ requests'[r].user \in Users
             /\ requests'[r].seen >= 0 )
           => /\ requests'[r].seen =
                   Cardinality(RecordsOfMonth(requests'[r].user, month))
              /\ requests'[r].admitted
                   <=> Cardinality(RecordsOfMonth(requests'[r].user, month))
                         < MaxRequestsPerMonth
              /\ ~requests'[r].admitted
                   => /\ requests'[r].response.status_code = 429
                      /\ requests'[r].response.code = "QUOTA_EXCEEDED" ]_vars

\* u1 was refused 429 in month 1 and admitted in month 2, with the records
\* of month 1 still stored
C27_Witness ==
  \E a, b \in DOMAIN requests :
    /\ requests[a].user = "u1" /\ requests[a].month = 1
    /\ requests[a].response.status_code = 429
    /\ requests[a].response.code = "QUOTA_EXCEEDED"
    /\ requests[b].user = "u1" /\ requests[b].month = 2
    /\ requests[b].admitted
    /\ requests[b].seen = 0
    /\ a < b
    /\ Cardinality(RecordsOfMonth("u1", 1)) = MaxRequestsPerMonth

(***************************************************************************)
(* Properties of deleteEndpoint (SpecEndpoints).                           *)
(***************************************************************************)
\* dispatch over rows never selects row id: not for the path equal to its
\* pattern nor for a path of the requests, in any order of the candidates
NeverSelected(rows, id) ==
  \A url \in RequestUrls \cup {rows[id].url_pattern} :
  \A candidates \in CandidateOrders(rows, rows[id].method) :
    findBestMatch(url, rows[id].method, candidates).id # id

\* the step of a deleteEndpoint call
Deletes(o) ==
  /\ ops[o].pc = "new"
  /\ ops'[o].pc = "done"
  /\ ops'[o].kind = "delete"

\* C28: deleteEndpoint removes no row and changes nothing but is_active of
\* the row of its id, from true to false, answering 200; on a row that is
\* already inactive it answers 404 ENDPOINT_NOT_FOUND and changes nothing;
\* dispatch selects no inactive row.
C28_SoftDeleteOnly ==
  [][ /\ \A o \in DOMAIN ops :
           Deletes(o) =>
             /\ Len(mock_endpoints') = Len(mock_endpoints)
             /\ IF mock_endpoints[ops'[o].id].is_active
                THEN /\ ops'[o].response.status_code = 200
                     /\ mock_endpoints' =
                          [mock_endpoints EXCEPT ![ops'[o].id].is_active = FALSE]
                ELSE /\ ops'[o].response.status_code = 404
                     /\ ops'[o].response.code = "ENDPOINT_NOT_FOUND"
                     /\ mock_endpoints' = mock_endpoints
      /\ \A i \in DOMAIN mock_endpoints' :
           ~mock_endpoints'[i].is_active => NeverSelected(mock_endpoints', i) ]_vars

\* endpoint 1 was deleted with 200, a second delete of it was answered 404,
\* and row 1 is still stored, inactive and out of reach of dispatch
C28_Witness ==
  \E a, b \in DOMAIN ops :
    /\ a < b
    /\ ops[a].kind = "delete" /\ ops[a].id = 1
    /\ ops[a].response.status_code = 200
    /\ ops[b].kind = "delete" /\ ops[b].id = 1
    /\ ops[b].response.status_code = 404
    /\ Len(mock_endpoints) = Len(SeedEndpoints)
    /\ mock_endpoints[1] = [SeedEndpoints[1] EXCEPT !.is_active = FALSE]
    /\ NeverSelected(mock_endpoints, 1)

(***************************************************************************)
(* A failed read of the candidates during dispatch (Spec).                 *)
(***************************************************************************)
\* the request was admitted and its read of the candidates failed
ReadFailed(r) ==
  /\ requests[r].admitted
  /\ requests[r].pc \in {"sleep", "done"}
  /\ ~requests[r].read_ok

\* C29: a request whose read of the candidate endpoints fails is answered
\* 500 INTERNAL_ERROR with the fixed message "Internal server error" and no
\* details; no endpoint is matched for it, no mock response is produced and
\* it does not sleep.
C29_StoreFailureIsGeneric500 ==
  \A r \in DOMAIN requests :
    ReadFailed(r) =>
      /\ requests[r].pc = "done"
      /\ requests[r].outcome = Outcome("throw", 0, NoMockResponse)
      /\ requests[r].response =
           HttpResponse(500, "INTERNAL_ERROR", "Internal server error", {}, 0)

\* a GET request is answered 500 after a failed read while another GET
\* request, whose read succeeded, is served by an endpoint
C29_Witness ==
  \E r, q \in DOMAIN requests :
    /\ ReadFailed(r)
    /\ requests[r].method = "GET"
    /\ requests[r].response.status_code = 500
    /\ requests[q].pc = "done"
    /\ requests[q].method = "GET"
    /\ requests[q].read_ok
    /\ requests[q].response.endpoint_id # 0

(***************************************************************************)
(* Agreement of matchUrlPattern and extractPathParameters (SpecMatcher).   *)
(***************************************************************************)
\* the names the pattern declares, as {name} or as :name
DeclaredNames(pattern) ==
  { ParamNames(pattern)[i] : i \in DOMAIN ParamNames(pattern) }

\* C30: for a pattern that declares placeholders and a path matchUrlPattern
\* accepts for it, extractPathParameters binds every declared name to a
\* non-empty value; the map is empty only if the pattern declares none.
C30_MatcherAndExtractorAgree ==
  m_phase = "extracted"
    => /\ \A name \in DeclaredNames(m_pattern) :
            /\ name \in DOMAIN m_params
            /\ m_params[name] # <<>>
       /\ m_params = EmptyParams => DeclaredNames(m_pattern) = {}


====
